---- MODULE Spec2Model ----
(***************************************************************************)
(* A model of the m4 macro processor of src/m4.c.                          *)
(*                                                                         *)
(* A byte is a one-character string; a C string or a buffer's contents     *)
(* (the bytes below its fill index) is a sequence of bytes.  Bytes are     *)
(* text bytes: the NUL byte is the C string terminator and is not part of  *)
(* any modelled text.  One step of the model is one iteration of the       *)
(* "m4 loop" of main, from OUT_DIV(0) to the end of the token dispatch,    *)
(* including a jump to end_of_input or clean_up taken inside it.           *)
(***************************************************************************)
EXTENDS Integers, Sequences, FiniteSets, TLC

VARIABLES pc, ret, exit_at, stdin, input, token, next_token, ht,
          quote_on, quote_depth, left_quote, right_quote, act_div,
          diversion, output, stack, sout, in0, hsink, ev, region,
          buf, libcall

vars == <<pc, ret, exit_at, stdin, input, token, next_token, ht,
          quote_on, quote_depth, left_quote, right_quote, act_div,
          diversion, output, stack, sout, in0, hsink, ev, region,
          buf, libcall>>

\* in0, exit_at, hsink, ev and region record history and are read by no step:
\* the input of the run, where it ended, the sink in force when each pending
\* frame was pushed, what the last iteration did, and where the last quoted
\* region opened.  buf is one struct buf with its capacity, and libcall the last
\* library call made on it; they are used by BufSpec, where malloc and
\* realloc may fail, and are constant in Spec, where they always succeed.

(***************************************************************************)
(* Bounds of the model.                                                    *)
(***************************************************************************)
\* Longest enumerated input body.
MaxBody == 4
\* Longest enumerated macro definition.
MaxDef == 3
\* Width in bits of the modelled size_t.
SizeBits == 16

(***************************************************************************)
(* Program constants.                                                      *)
(***************************************************************************)
INIT_BUF_SIZE == 512
HASH_TABLE_SIZE == 16384
SIZE_MAX == 2 ^ SizeBits - 1
EOF == "EOF"

(***************************************************************************)
(* Pointers: NULL, or Ptr(x) for a pointer to the object x.                *)
(***************************************************************************)
NULL == <<>>
Ptr(x) == <<x>>
Deref(p) == p[1]

(***************************************************************************)
(* Sequences.                                                              *)
(***************************************************************************)
Last(s) == s[Len(s)]
Front(s) == SubSeq(s, 1, Len(s) - 1)
Reverse(s) == [i \in 1..Len(s) |-> s[Len(s) + 1 - i]]

RECURSIVE Concat(_)
Concat(ss) == IF ss = <<>> THEN <<>> ELSE Head(ss) \o Concat(Tail(ss))

SeqsUpTo(A, n) == UNION {[1..k -> A] : k \in 0..n}

(***************************************************************************)
(* <ctype.h> in the "C" locale, and the ASCII codes hash_str reads.  The   *)
(* modelled letters are the lower-case ones.                               *)
(* GRAVE stands for the grave accent byte (ASCII 96), the initial left     *)
(* quote, which cannot be written inside a string of this language.        *)
(***************************************************************************)
GRAVE == "grave"
Lower == <<"a","b","c","d","e","f","g","h","i","j","k","l","m",
           "n","o","p","q","r","s","t","u","v","w","x","y","z">>
Digits == <<"0","1","2","3","4","5","6","7","8","9">>

IndexOf(s, c) == CHOOSE i \in 1..Len(s) : s[i] = c

Letters == {Lower[i] : i \in 1..Len(Lower)}
DigitSet == {Digits[i] : i \in 1..Len(Digits)}

isalpha(c) == c \in Letters
isdigit(c) == c \in DigitSet
isalnum(c) == isalpha(c) \/ isdigit(c)

Punct ==
    <<[c |-> "_", n |-> 95], [c |-> " ", n |-> 32], [c |-> "\t", n |-> 9],
      [c |-> "\n", n |-> 10], [c |-> "\r", n |-> 13], [c |-> "$", n |-> 36],
      [c |-> "'", n |-> 39], [c |-> "(", n |-> 40], [c |-> ")", n |-> 41],
      [c |-> ",", n |-> 44], [c |-> "-", n |-> 45], [c |-> ".", n |-> 46],
      [c |-> "/", n |-> 47], [c |-> "[", n |-> 91], [c |-> "]", n |-> 93],
      [c |-> GRAVE, n |-> 96]>>

\* The largest value of unsigned char, and HIGH, the byte of that value.
UCHAR_MAX == 255
HIGH == "0xff"

\* The modelled bytes and their codes.
Byte == Letters \cup DigitSet \cup {Punct[i].c : i \in 1..Len(Punct)} \cup {HIGH}

Ascii ==
    [c \in Byte |->
        IF c = HIGH THEN UCHAR_MAX
        ELSE IF c \in Letters THEN 96 + IndexOf(Lower, c)
        ELSE IF c \in DigitSet THEN 47 + IndexOf(Digits, c)
        ELSE Punct[CHOOSE i \in 1..Len(Punct) : Punct[i].c = c].n]

Ord(c) == Ascii[c]

(***************************************************************************)
(* size_t arithmetic.                                                      *)
(***************************************************************************)
SizeInc(n) == IF n = SIZE_MAX THEN 0 ELSE n + 1
SizeDec(n) == IF n = 0 THEN SIZE_MAX ELSE n - 1

RECURSIVE BitXor(_, _)
BitXor(a, b) ==
    IF a = 0 THEN b
    ELSE IF b = 0 THEN a
    ELSE ((((a % 2) + (b % 2)) % 2) + (2 * BitXor(a \div 2, b \div 2)))

(***************************************************************************)
(* The symbol table: ht maps the index of each non-empty bucket to its     *)
(* chain, head first; an entry is [name, def], where def is NULL for a      *)
(* built-in and Ptr(string) otherwise.                                     *)
(* The hash is reduced modulo HASH_TABLE_SIZE at every step, which leaves  *)
(* the final remainder as the code computes it (the table size is a power  *)
(* of two and the hash only multiplies and xors).                          *)
(***************************************************************************)
RECURSIVE djb2(_, _)
\* The test h2 >= 0 always holds; it makes the hash so far a value before
\* the next byte is taken.
djb2(s, h) ==
    IF s = <<>> THEN h
    ELSE LET h2 == BitXor((h * 33) % HASH_TABLE_SIZE, Ord(Head(s)))
         IN IF h2 >= 0 THEN djb2(Tail(s), h2) ELSE h2

hash_str(s) == djb2(s, 5381 % HASH_TABLE_SIZE) % HASH_TABLE_SIZE

Bucket(t, h) == IF h \in DOMAIN t THEN t[h] ELSE <<>>

SetBucket(t, h, chain) ==
    IF chain = <<>>
    THEN [k \in (DOMAIN t) \ {h} |-> t[k]]
    ELSE IF h \in DOMAIN t THEN [t EXCEPT ![h] = chain]
    ELSE (h :> chain) @@ t

\* The position in the chain of the entry lookup_entry returns, 0 for NULL.
RECURSIVE ChainFind(_, _, _)
ChainFind(chain, name, i) ==
    IF i > Len(chain) THEN 0
    ELSE IF chain[i].name = name THEN i
    ELSE ChainFind(chain, name, i + 1)

lookup_entry(t, name) ==
    LET chain == Bucket(t, hash_str(name))
        i == ChainFind(chain, name, 1)
    IN IF i = 0 THEN NULL ELSE Ptr(chain[i])

upsert_entry(t, name, def) ==
    LET h == hash_str(name)
        chain == Bucket(t, h)
        i == ChainFind(chain, name, 1)
    IN IF i = 0
       THEN SetBucket(t, h, <<[name |-> name, def |-> def]>> \o chain)
       ELSE SetBucket(t, h, [chain EXCEPT ![i].def = def])

\* delete_entry: Ptr(the new table), or NULL when the name is not found.
delete_entry(t, name) ==
    LET h == hash_str(name)
        chain == Bucket(t, h)
        i == ChainFind(chain, name, 1)
    IN IF i = 0 THEN NULL
       ELSE IF i = 1 THEN Ptr(SetBucket(t, h, <<>>))
       ELSE Ptr(SetBucket(t, h, SubSeq(chain, 1, i - 1)
                                  \o SubSeq(chain, i + 1, Len(chain))))

(***************************************************************************)
(* struct buf with its capacity: a is the bytes below the fill index i, so *)
(* i = Len(a), and s is the allocated size.  The argument mem of the       *)
(* operators below is the number of calls of realloc that succeed before   *)
(* one fails.                                                              *)
(***************************************************************************)
init_buf == [a |-> <<>>, s |-> INIT_BUF_SIZE]

BUF_FREE_SIZE(b) == b.s - Len(b.a)

\* size_t overflow tests
AOF(a, b) == a > SIZE_MAX - b
MOF(a, b) == a # 0 /\ b > SIZE_MAX \div a

grow_buf(b, will_use, mem) ==
    IF will_use <= BUF_FREE_SIZE(b) THEN [rc |-> 0, b |-> b, mem |-> mem]
    ELSE IF MOF(b.s, 2) \/ AOF(b.s * 2, will_use) \/ mem = 0
    THEN [rc |-> 1, b |-> b, mem |-> mem]
    ELSE [rc |-> 0, b |-> [b EXCEPT !.s = b.s * 2 + will_use],
          mem |-> mem - 1]

\* ungetch on a buffer with capacity; rc is EOF or the byte stored.
ungetch_buf(b, ch, mem) ==
    LET g == IF Len(b.a) = b.s THEN grow_buf(b, 1, mem)
             ELSE [rc |-> 0, b |-> b, mem |-> mem]
    IN IF g.rc = 1 THEN [rc |-> EOF, b |-> b, mem |-> mem]
       ELSE [rc |-> ch, b |-> [g.b EXCEPT !.a = Append(@, ch)], mem |-> g.mem]

RECURSIVE ungetstr_buf(_, _, _)
\* ungetstr on a buffer with capacity: the bytes of str, last one first.
ungetstr_buf(b, str, mem) ==
    IF str = <<>> THEN [rc |-> 0, b |-> b]
    ELSE LET u == ungetch_buf(b, Last(str), mem)
         IN IF u.rc = EOF THEN [rc |-> 1, b |-> u.b]
            ELSE ungetstr_buf(u.b, Front(str), u.mem)

\* getch on a buffer with capacity (without standard input).
getch_buf(b) ==
    IF b.a # <<>> THEN [c |-> Last(b.a), b |-> [b EXCEPT !.a = Front(@)]]
    ELSE [c |-> EOF, b |-> b]

LibCall(op, arg, rc) == [op |-> op, arg |-> arg, rc |-> rc]

NoLibCall == LibCall("none", <<>>, 0)

(***************************************************************************)
(* The input stream: the pushback buffer input (its last byte is read      *)
(* first) in front of the unread bytes of standard input.                  *)
(***************************************************************************)
getch(inp, sin) ==
    IF inp # <<>> THEN [c |-> Last(inp), input |-> Front(inp), stdin |-> sin]
    ELSE IF sin # <<>> THEN [c |-> Head(sin), input |-> inp, stdin |-> Tail(sin)]
    ELSE [c |-> EOF, input |-> inp, stdin |-> sin]

\* The bytes the next reads will see, in order.
Avail(inp, sin) == Reverse(inp) \o sin

ungetch(b, ch) == Append(b, ch)

\* ungetstr pushing the first byte first.
ungetstr_Forward(b, str) == b \o str

ungetstr(b, str) == b \o Reverse(str)

\* The loop of getword that reads the rest of an identifier.
RECURSIVE getword_rest(_, _, _)
getword_rest(tok, inp, sin) ==
    LET g == getch(inp, sin)
    IN IF g.c = EOF
       THEN [rc |-> 1, token |-> tok, input |-> g.input, stdin |-> g.stdin]
       ELSE IF ~(isalnum(g.c) \/ g.c = "_")
       THEN [rc |-> 0, token |-> tok, input |-> ungetch(g.input, g.c),
             stdin |-> g.stdin]
       ELSE getword_rest(ungetch(tok, g.c), g.input, g.stdin)

\* getword: rc is its return value, token the bytes left in the token buffer.
getword(inp, sin) ==
    LET g == getch(inp, sin)
    IN IF g.c = EOF
       THEN [rc |-> 1, token |-> <<>>, input |-> g.input, stdin |-> g.stdin]
       ELSE IF isalpha(g.c) \/ g.c = "_"
       THEN getword_rest(<<g.c>>, g.input, g.stdin)
       ELSE [rc |-> 0, token |-> <<g.c>>, input |-> g.input, stdin |-> g.stdin]

(***************************************************************************)
(* String literals of the source.                                          *)
(***************************************************************************)
W_define == <<"d","e","f","i","n","e">>
W_undefine == <<"u","n","d","e","f","i","n","e">>
W_changequote == <<"c","h","a","n","g","e","q","u","o","t","e">>
W_divert == <<"d","i","v","e","r","t">>
W_dumpdef == <<"d","u","m","p","d","e","f">>
W_errprint == <<"e","r","r","p","r","i","n","t">>
W_ifdef == <<"i","f","d","e","f">>
W_ifelse == <<"i","f","e","l","s","e">>
W_include == <<"i","n","c","l","u","d","e">>
W_len == <<"l","e","n">>
W_index == <<"i","n","d","e","x">>
W_translit == <<"t","r","a","n","s","l","i","t">>
W_substr == <<"s","u","b","s","t","r">>
W_dnl == <<"d","n","l">>
W_divnum == <<"d","i","v","n","u","m">>
W_undivert == <<"u","n","d","i","v","e","r","t">>
W_incr == <<"i","n","c","r">>
W_htdist == <<"h","t","d","i","s","t">>
W_dirsep == <<"d","i","r","s","e","p">>
W_add == <<"a","d","d">>
W_mult == <<"m","u","l","t">>
W_sub == <<"s","u","b">>
W_div == <<"d","i","v">>
W_mod == <<"m","o","d">>
DIRSEP == <<"/">>

\* The built-in names in the order main enters them into the table.
BuiltIns ==
    <<W_define, W_undefine, W_changequote, W_divert, W_dumpdef, W_errprint,
      W_ifdef, W_ifelse, W_include, W_len, W_index, W_translit, W_substr,
      W_dnl, W_divnum, W_undivert, W_incr, W_htdist, W_dirsep, W_add,
      W_mult, W_sub, W_div, W_mod>>

RECURSIVE DefineBuiltIns(_, _)
\* The table is never empty after an upsert; the test t2 # <<>> makes the
\* table a value before the next name is entered.
DefineBuiltIns(t, names) ==
    IF names = <<>> THEN t
    ELSE LET t2 == upsert_entry(t, Head(names), NULL)
         IN IF t2 # <<>> THEN DefineBuiltIns(t2, Tail(names)) ELSE t2

InitTable == DefineBuiltIns(<<>>, BuiltIns)

(***************************************************************************)
(* Call frames (struct mcall) and the stack, top frame first.  arg_buf     *)
(* maps 0..9 to NULL or Ptr(contents).                                     *)
(***************************************************************************)
init_mcall ==
    [name |-> NULL, def |-> NULL, bracket_depth |-> 0, act_arg |-> 1,
     arg_buf |-> [j \in 0..9 |-> IF j = 1 THEN Ptr(<<>>) ELSE NULL]]

stack_on_mcall(stk) == <<init_mcall>> \o stk

delete_stack_head(stk) == IF stk = <<>> THEN stk ELSE Tail(stk)

RECURSIVE SlotScan(_, _)
\* The indices of arg_buf read by while (*(arg_buf + j) != NULL && j < 10),
\* in order: the slot is read before j is tested, so the scan of a frame
\* with slots 1..9 allocated reads index 10, and ends there whatever it
\* finds.
SlotScan(f, j) ==
    IF j > 9 THEN <<j>>
    ELSE IF f.arg_buf[j] # NULL THEN <<j>> \o SlotScan(f, j + 1)
    ELSE <<j>>

\* The slots read by terminate_args and by free_mcall.
terminate_args(f) == SlotScan(f, 1)

free_mcall(f) == SlotScan(f, 1)

\* ARG(n): the collected argument n of frame f as a C string.
ARG(f, n) == IF f.arg_buf[n] = NULL THEN <<>> ELSE Deref(f.arg_buf[n])

(***************************************************************************)
(* The output sink.  The pointer output is modelled by what it points to:  *)
(* lvl = 0 is diversion buffer n; lvl > 0 is argument buffer n of the      *)
(* frame that is lvl-th from the bottom of the stack.                      *)
(***************************************************************************)
DivSink(n) == [lvl |-> 0, n |-> n]

SET_OUTPUT(stk, ad) ==
    IF stk = <<>> THEN DivSink(ad)
    ELSE [lvl |-> Len(stk), n |-> Head(stk).act_arg]

(***************************************************************************)
(* The state of main as one record, so that the steps of one iteration     *)
(* compose as functions from state to state.                               *)
(***************************************************************************)
Cur ==
    [pc |-> pc, ret |-> ret, exit_at |-> exit_at, stdin |-> stdin,
     input |-> input, token |-> token, next_token |-> next_token, ht |-> ht,
     quote_on |-> quote_on, quote_depth |-> quote_depth,
     left_quote |-> left_quote, right_quote |-> right_quote,
     act_div |-> act_div, diversion |-> diversion, output |-> output,
     stack |-> stack, sout |-> sout, in0 |-> in0, hsink |-> hsink, ev |-> ev,
     region |-> region]

Set(s) ==
    /\ pc' = s.pc
    /\ ret' = s.ret
    /\ exit_at' = s.exit_at
    /\ stdin' = s.stdin
    /\ input' = s.input
    /\ token' = s.token
    /\ next_token' = s.next_token
    /\ ht' = s.ht
    /\ quote_on' = s.quote_on
    /\ quote_depth' = s.quote_depth
    /\ left_quote' = s.left_quote
    /\ right_quote' = s.right_quote
    /\ act_div' = s.act_div
    /\ diversion' = s.diversion
    /\ output' = s.output
    /\ stack' = s.stack
    /\ sout' = s.sout
    /\ in0' = s.in0
    /\ hsink' = s.hsink
    /\ ev' = s.ev
    /\ region' = s.region
    /\ UNCHANGED <<buf, libcall>>

\* What one iteration did: the branch of the dispatch taken, and for a
\* completed call its frame and the text it pushed onto the input.
Event(kind, frame, pushed) == [kind |-> kind, frame |-> frame, pushed |-> pushed]

\* QUIT, taken inside the loop.
QUIT(s) == [s EXCEPT !.pc = "done", !.ret = 1, !.exit_at = "fatal"]

\* put_str that writes text for diversion 0 straight to standard output.
put_str_Unbuffered(s, str) ==
    IF s.output = DivSink(0) THEN [s EXCEPT !.sout = @ \o str]
    ELSE IF s.output.lvl = 0
    THEN [s EXCEPT !.diversion[s.output.n] = @ \o str]
    ELSE LET i == Len(s.stack) - s.output.lvl + 1
         IN [s EXCEPT !.stack[i].arg_buf[s.output.n] = Ptr(Deref(@) \o str)]

\* put_str(output, str): append str to the buffer output points to.
put_str(s, str) ==
    IF s.output.lvl = 0
    THEN [s EXCEPT !.diversion[s.output.n] = @ \o str]
    ELSE LET i == Len(s.stack) - s.output.lvl + 1
         IN [s EXCEPT !.stack[i].arg_buf[s.output.n] = Ptr(Deref(@) \o str)]

\* OUT_DIV without the reset of the fill index.
OUT_DIV_KeepBuffer(s, n) == [s EXCEPT !.sout = @ \o s.diversion[n]]

\* OUT_DIV(n): write diversion n to standard output and empty it.
OUT_DIV(s, n) ==
    [s EXCEPT !.sout = @ \o s.diversion[n], !.diversion[n] = <<>>]

RECURSIVE UndivertFrom(_, _)
UndivertFrom(s, k) == IF k >= 10 THEN s ELSE UndivertFrom(OUT_DIV(s, k), k + 1)

\* UNDIVERT_ALL with the loop running over all eleven buffers.
UNDIVERT_ALL_WithSink(s) == OUT_DIV(UndivertFrom(s, 0), 10)

UNDIVERT_ALL(s) == UndivertFrom(s, 0)

\* buf_dump_buf without the reset of the fill index of src.
buf_dump_buf_KeepSrc(s, dst, src) ==
    [s EXCEPT !.diversion[dst] = s.diversion[dst] \o s.diversion[src]]

\* buf_dump_buf(DIV(dst), DIV(src))
buf_dump_buf(s, dst, src) ==
    [s EXCEPT !.diversion =
        [@ EXCEPT ![dst] = s.diversion[dst] \o s.diversion[src], ![src] = <<>>]]

\* end_of_input without UNDIVERT_ALL.
end_of_input_NoFlush(s) ==
    IF s.stack # <<>> \/ s.quote_on
    THEN [s EXCEPT !.pc = "done", !.ret = 1, !.exit_at = "eoi"]
    ELSE [s EXCEPT !.pc = "done", !.exit_at = "eoi"]

\* The code at the label end_of_input, through clean_up.
end_of_input(s) ==
    IF s.stack # <<>> \/ s.quote_on
    THEN [s EXCEPT !.pc = "done", !.ret = 1, !.exit_at = "eoi"]
    ELSE [UNDIVERT_ALL(s) EXCEPT !.pc = "done", !.exit_at = "eoi"]

WS(str) == str \in {<<" ">>, <<"\t">>, <<"\n">>, <<"\r">>}

\* READ_TOKEN(next_token): the state with the token read, and getword's rc.
ReadNext(s) ==
    LET g == getword(s.input, s.stdin)
    IN [rc |-> g.rc,
        s |-> [s EXCEPT !.next_token = g.token, !.input = g.input,
                        !.stdin = g.stdin]]

RECURSIVE EAT_WS(_)
EAT_WS(s) ==
    LET r == ReadNext(s)
    IN IF r.rc = 1 THEN end_of_input(r.s)
       ELSE IF WS(r.s.next_token) THEN EAT_WS(r.s)
       ELSE [r.s EXCEPT !.input = ungetstr(@, r.s.next_token)]

RECURSIVE DNL(_)
DNL(s) ==
    LET r == ReadNext(s)
    IN IF r.rc = 1 THEN end_of_input(r.s)
       ELSE IF r.s.next_token # <<"\n">> THEN DNL(r.s)
       ELSE r.s

(***************************************************************************)
(* Numbers and strings.                                                    *)
(***************************************************************************)
DigitVal(c) == Ascii[c] - 48


\* str_to_num: Ptr(the number), or NULL for a return value of 1.
RECURSIVE str_to_num_scan(_, _)
str_to_num_scan(str, n) ==
    IF str = <<>> THEN Ptr(n)
    ELSE IF ~isdigit(Head(str)) THEN NULL
    ELSE IF MOF(n, 10) THEN NULL
    ELSE IF AOF(n * 10, DigitVal(Head(str))) THEN NULL
    ELSE str_to_num_scan(Tail(str), n * 10 + DigitVal(Head(str)))

str_to_num(str) == IF str = <<>> THEN NULL ELSE str_to_num_scan(str, 0)

\* snprintf(num, NUM_SIZE, "%lu", n)
RECURSIVE NumStr(_)
NumStr(n) ==
    IF n < 10 THEN <<Digits[n + 1]>>
    ELSE Append(NumStr(n \div 10), Digits[(n % 10) + 1])

\* (unsigned long) n, for an unsigned long of the given width.
ToULong(n, bits) == n % (2 ^ bits)

\* The width of unsigned long: that of size_t on the build modelled (cc on
\* Linux).
ULongBits == SizeBits

\* snprintf(num, NUM_SIZE, "%lu", (unsigned long) n)
FormatULong(n, bits) == NumStr(ToULong(n, bits))

\* DIVNUM
DIVNUM(s) ==
    [s EXCEPT !.input =
        ungetstr(@, IF s.act_div = 10 THEN <<"-", "1">>
                    ELSE FormatULong(s.act_div, ULongBits))]

(***************************************************************************)
(* sub_args and strip_def.                                                 *)
(***************************************************************************)
\* IsArgDigit without the test h != '0'.
IsArgDigit_AnyDigit(h) == isdigit(h)

IsArgDigit(h) == isdigit(h) /\ h # "0"

RECURSIVE sub_args_scan(_, _, _)
sub_args_scan(def, f, result) ==
    IF def = <<>> THEN result
    ELSE IF Head(def) = "$" /\ Tail(def) # <<>> /\ IsArgDigit(def[2])
    THEN LET b == f.arg_buf[DigitVal(def[2])]
         IN sub_args_scan(Tail(Tail(def)), f,
                IF b # NULL THEN result \o Deref(b) ELSE result)
    ELSE sub_args_scan(Tail(def), f, ungetch(result, Head(def)))

\* sub_args(result, stack): the string left in result.
sub_args(f) == sub_args_scan(Deref(f.def), f, <<>>)

RECURSIVE strip_def_KeepDigit(_)
\* strip_def without the step over the digit.
strip_def_KeepDigit(def) ==
    IF def = <<>> THEN <<>>
    ELSE IF Head(def) = "$" /\ Tail(def) # <<>> /\ IsArgDigit(def[2])
    THEN strip_def_KeepDigit(Tail(def))
    ELSE <<Head(def)>> \o strip_def_KeepDigit(Tail(def))

RECURSIVE strip_def(_)
strip_def(def) ==
    IF def = <<>> THEN <<>>
    ELSE IF Head(def) = "$" /\ Tail(def) # <<>> /\ IsArgDigit(def[2])
    THEN strip_def(Tail(Tail(def)))
    ELSE <<Head(def)>> \o strip_def(Tail(def))

(***************************************************************************)
(* The built-in macros called with arguments (PROCESS_BI_WITH_ARGS).       *)
(* f is the top frame, whose arguments are NUL-terminated.  Messages to    *)
(* standard error are not modelled: EQUIT is QUIT.                         *)
(***************************************************************************)
isgraph(c) == c \notin {" ", "\t", "\n", "\r"}

IsDivDigit(str) == Len(str) = 1 /\ isdigit(str[1])

BI_define(s, f) == [s EXCEPT !.ht = upsert_entry(@, ARG(f, 1), Ptr(ARG(f, 2)))]

BI_undefine(s, f) ==
    LET t == delete_entry(s.ht, ARG(f, 1))
    IN IF t = NULL THEN QUIT(s) ELSE [s EXCEPT !.ht = Deref(t)]

BI_changequote(s, f) ==
    LET a == ARG(f, 1)
        b == ARG(f, 2)
    IN IF \/ Len(a) # 1 \/ Len(b) # 1
          \/ a[1] = b[1]
          \/ ~isgraph(a[1]) \/ ~isgraph(b[1])
          \/ a[1] \in {"(", ")", ","} \/ b[1] \in {"(", ")", ","}
       THEN QUIT(s)
       ELSE [s EXCEPT !.left_quote = a[1], !.right_quote = b[1]]

\* divert that accepts the digits only.
BI_divert_DigitsOnly(s, f) ==
    LET a == ARG(f, 1)
    IN IF IsDivDigit(a)
       THEN [s EXCEPT !.act_div = DigitVal(a[1]),
                      !.output = SET_OUTPUT(s.stack, DigitVal(a[1]))]
       ELSE QUIT(s)

BI_divert(s, f) ==
    LET a == ARG(f, 1)
    IN IF IsDivDigit(a)
       THEN [s EXCEPT !.act_div = DigitVal(a[1]),
                      !.output = SET_OUTPUT(s.stack, DigitVal(a[1]))]
       ELSE IF a = <<"-", "1">>
       THEN [s EXCEPT !.act_div = 10, !.output = SET_OUTPUT(s.stack, 10)]
       ELSE QUIT(s)

\* ISMACRO(str): the entry found, or NULL.
ISMACRO(t, str) ==
    IF str # <<>> /\ (isalpha(str[1]) \/ str[1] = "_")
    THEN lookup_entry(t, str)
    ELSE NULL

BI_ifdef(s, f) ==
    [s EXCEPT !.input =
        ungetstr(@, IF ISMACRO(s.ht, ARG(f, 1)) # NULL
                    THEN ARG(f, 2) ELSE ARG(f, 3))]

BI_ifelse(s, f) ==
    [s EXCEPT !.input =
        ungetstr(@, IF ARG(f, 1) = ARG(f, 2) THEN ARG(f, 3) ELSE ARG(f, 4))]

\* include: the modelled file system holds no file, so filesize fails.
BI_include(s, f) == QUIT(s)

BI_len(s, f) ==
    [s EXCEPT !.input = ungetstr(@, FormatULong(Len(ARG(f, 1)), ULongBits))]

\* strstr(hay, needle): the offset of the first occurrence, or -1.
StrStr(hay, needle) ==
    LET hits == {i \in 0..(Len(hay) - Len(needle)) :
                    SubSeq(hay, i + 1, i + Len(needle)) = needle}
    IN IF hits = {} THEN -1
       ELSE CHOOSE i \in hits : \A j \in hits : i <= j

BI_index(s, f) ==
    LET i == StrStr(ARG(f, 1), ARG(f, 2))
    IN [s EXCEPT !.input =
          ungetstr(@, IF i = -1 THEN <<"-", "1">>
                      ELSE FormatULong(i, ULongBits))]

\* The values of a slot of the map of translit other than a target byte:
\* -1 (pass through) and NUL (delete).
PASS == "pass"
DELETE == "del"

\* int map[UCHAR_MAX], every slot set to pass through (-1).  out is the
\* object that follows the array in memory, which an index of UCHAR_MAX
\* reaches: what it holds is not determined by the program.  oob records
\* that such an index was used.
InMap(c) == Ascii[c] < UCHAR_MAX

MapInit(wild) ==
    [slot |-> [c \in {b \in Byte : InMap(b)} |-> PASS], out |-> wild,
     oob |-> FALSE]

\* *(map + uc), read
MapRead(m, c) == IF InMap(c) THEN m.slot[c] ELSE m.out

MapTouch(m, c) == IF InMap(c) THEN m ELSE [m EXCEPT !.oob = TRUE]

\* *(map + uc) = v
MapWrite(m, c, v) ==
    IF InMap(c) THEN [m EXCEPT !.slot[c] = v]
    ELSE [m EXCEPT !.out = v, !.oob = TRUE]

\* The two loops that build the map from ARG(2) and ARG(3).
RECURSIVE TranslitPairs(_, _, _)
TranslitPairs(from, to, m) ==
    IF from = <<>> THEN m
    ELSE IF to = <<>>
    THEN TranslitPairs(Tail(from), to, MapWrite(m, Head(from), DELETE))
    ELSE TranslitPairs(Tail(from), Tail(to),
            IF MapRead(m, Head(from)) = PASS
            THEN MapWrite(m, Head(from), Head(to))
            ELSE MapTouch(m, Head(from)))

\* The loop over ARG(1) that fills tmp_str.
RECURSIVE TranslitApply(_, _, _)
TranslitApply(str, m, acc) ==
    IF str = <<>> THEN [text |-> acc, map |-> m]
    ELSE LET x == MapRead(m, Head(str))
         IN TranslitApply(Tail(str), MapTouch(m, Head(str)),
                IF x = PASS THEN Append(acc, Head(str))
                ELSE IF x = DELETE THEN acc
                ELSE Append(acc, x))

\* translit: the text pushed and the map, where the object after the array
\* holds wild on entry.
translit(str, from, to, wild) ==
    TranslitApply(str, TranslitPairs(from, to, MapInit(wild)), <<>>)

\* No input of the main specification holds the byte HIGH, so the value
\* given for the object after the array is never read.
BI_translit(s, f) ==
    [s EXCEPT !.input =
        ungetstr(@, translit(ARG(f, 1), ARG(f, 2), ARG(f, 3), PASS).text)]

Min(a, b) == IF a < b THEN a ELSE b

BI_substr(s, f) ==
    LET str == ARG(f, 1)
        len == Len(str)
        w == str_to_num(ARG(f, 2))
        n == str_to_num(ARG(f, 3))
    IN IF len = 0 THEN s
       ELSE IF w = NULL \/ n = NULL THEN QUIT(s)
       ELSE IF ~(Deref(w) < len) THEN s
       ELSE IF AOF(Deref(n), 1) THEN QUIT(s)
       ELSE [s EXCEPT !.input =
               ungetstr(@, SubSeq(str, Deref(w) + 1,
                        Min(len, Deref(w) + Min(len + 1, Deref(n) + 1) - 1)))]

\* The arguments of undivert that name a diversion: single digits 1..9.
IsHeldDiv(str) == IsDivDigit(str) /\ str[1] # "0"

RECURSIVE UndivertArgs(_, _, _)
UndivertArgs(s, f, k) ==
    IF k >= 10 THEN s
    ELSE LET a == ARG(f, k)
         IN IF ~IsHeldDiv(a) THEN UndivertArgs(s, f, k + 1)
            ELSE IF s.act_div = 0
            THEN UndivertArgs(OUT_DIV(s, DigitVal(a[1])), f, k + 1)
            ELSE IF DigitVal(a[1]) = s.act_div THEN UndivertArgs(s, f, k + 1)
            ELSE UndivertArgs(buf_dump_buf(s, s.act_div, DigitVal(a[1])),
                              f, k + 1)

BI_undivert(s, f) == UndivertArgs(s, f, 1)

\* The loops of add, mult, sub, div and mod over the arguments k..9:
\* Ptr(the result w), or NULL where the code takes EQUIT.
RECURSIVE ArithFold(_, _, _, _)
ArithFold(op, f, k, w) ==
    IF k >= 10 THEN Ptr(w)
    ELSE IF ARG(f, k) = <<>> THEN ArithFold(op, f, k + 1, w)
    ELSE LET p == str_to_num(ARG(f, k))
             n == Deref(p)
         IN IF p = NULL THEN NULL
            ELSE CASE op = "add" ->
                        IF AOF(w, n) THEN NULL
                        ELSE ArithFold(op, f, k + 1, w + n)
                   [] op = "mult" ->
                        IF MOF(w, n) THEN NULL
                        ELSE ArithFold(op, f, k + 1, w * n)
                   [] op = "sub" ->
                        IF n > w THEN NULL
                        ELSE ArithFold(op, f, k + 1, w - n)
                   [] op = "div" ->
                        IF n = 0 THEN NULL
                        ELSE ArithFold(op, f, k + 1, w \div n)
                   [] op = "mod" ->
                        IF n = 0 THEN NULL
                        ELSE ArithFold(op, f, k + 1, w % n)

\* incr: Ptr(n + 1), or NULL where the code takes EQUIT.
IncrResult(f) ==
    LET n == str_to_num(ARG(f, 1))
    IN IF n = NULL THEN NULL
       ELSE IF AOF(Deref(n), 1) THEN NULL
       ELSE Ptr(Deref(n) + 1)

\* sub, div and mod: argument 1 must be used and is the start value.
FromArg1Result(op, f) ==
    LET w == str_to_num(ARG(f, 1))
    IN IF ARG(f, 1) = <<>> \/ w = NULL THEN NULL
       ELSE ArithFold(op, f, 2, Deref(w))

\* The number that the arithmetic built-in op computes from frame f.
ArithResult(op, f) ==
    CASE op = "incr" -> IncrResult(f)
      [] op = "add" -> ArithFold("add", f, 1, 0)
      [] op = "mult" -> ArithFold("mult", f, 1, 1)
      [] OTHER -> FromArg1Result(op, f)

\* snprintf of the result and ungetstr(input, num).
PushNum(s, p) ==
    IF p = NULL THEN QUIT(s)
    ELSE [s EXCEPT !.input = ungetstr(@, FormatULong(Deref(p), ULongBits))]

BI_incr(s, f) == PushNum(s, ArithResult("incr", f))

BI_add(s, f) == PushNum(s, ArithResult("add", f))

BI_mult(s, f) == PushNum(s, ArithResult("mult", f))

BI_from_arg1(op, s, f) == PushNum(s, ArithResult(op, f))

PROCESS_BI_WITH_ARGS(s) ==
    LET f == Head(s.stack)
        SN == Deref(f.name)
    IN CASE SN = W_define -> BI_define(s, f)
         [] SN = W_undefine -> BI_undefine(s, f)
         [] SN = W_changequote -> BI_changequote(s, f)
         [] SN = W_divert -> BI_divert(s, f)
         [] SN = W_dumpdef -> s
         [] SN = W_errprint -> s
         [] SN = W_ifdef -> BI_ifdef(s, f)
         [] SN = W_ifelse -> BI_ifelse(s, f)
         [] SN = W_include -> BI_include(s, f)
         [] SN = W_len -> BI_len(s, f)
         [] SN = W_index -> BI_index(s, f)
         [] SN = W_translit -> BI_translit(s, f)
         [] SN = W_substr -> BI_substr(s, f)
         [] SN = W_undivert -> BI_undivert(s, f)
         [] SN = W_dnl -> DNL(s)
         [] SN = W_divnum -> DIVNUM(s)
         [] SN = W_incr -> BI_incr(s, f)
         [] SN = W_htdist -> s
         [] SN = W_dirsep -> [s EXCEPT !.input = ungetstr(@, DIRSEP)]
         [] SN = W_add -> BI_add(s, f)
         [] SN = W_mult -> BI_mult(s, f)
         [] SN = W_sub -> BI_from_arg1("sub", s, f)
         [] SN = W_div -> BI_from_arg1("div", s, f)
         [] SN = W_mod -> BI_from_arg1("mod", s, f)
         [] OTHER -> s

\* PROCESS_BI_NO_ARGS: the built-in named by the token, without arguments.
PROCESS_BI_NO_ARGS(s) ==
    CASE s.token = W_dnl -> DNL(s)
      [] s.token = W_divnum -> DIVNUM(s)
      [] s.token = W_undivert ->
            IF s.act_div # 0 THEN QUIT(s) ELSE UNDIVERT_ALL(s)
      [] s.token = W_divert ->
            [s EXCEPT !.act_div = 0, !.output = SET_OUTPUT(s.stack, 0)]
      [] s.token = W_htdist -> s
      [] s.token = W_dirsep -> [s EXCEPT !.input = ungetstr(@, DIRSEP)]
      [] OTHER -> put_str(s, s.token)

(***************************************************************************)
(* The m4 loop.  Read is the state after OUT_DIV(0) and READ_TOKEN(token)  *)
(* at the top of an iteration, with getword's return value.                *)
(***************************************************************************)
Read ==
    LET s1 == OUT_DIV(Cur, 0)
        g == getword(s1.input, s1.stdin)
    IN [rc |-> g.rc,
        s |-> [s1 EXCEPT !.token = g.token, !.input = g.input,
                         !.stdin = g.stdin]]

ARG_END(s) ==
    s.stack # <<>> /\ Head(s.stack).bracket_depth = 1 /\ s.token = <<")">>

NESTED_CB(s) ==
    s.stack # <<>> /\ Head(s.stack).bracket_depth > 1 /\ s.token = <<")">>

NESTED_OB(s) == s.stack # <<>> /\ s.token = <<"(">>

ARG_COMMA(s) ==
    s.stack # <<>> /\ Head(s.stack).bracket_depth = 1 /\ s.token = <<",">>

\* The branch of the if-else chain of the loop that state s takes.
Dispatch(s) ==
    IF s.token = <<s.left_quote>> THEN "left_quote"
    ELSE IF s.token = <<s.right_quote>> THEN "right_quote"
    ELSE IF s.quote_on THEN "quoted"
    ELSE IF ISMACRO(s.ht, s.token) # NULL THEN "macro"
    ELSE IF ARG_END(s) THEN "arg_end"
    ELSE IF ARG_COMMA(s) THEN "arg_comma"
    ELSE IF NESTED_CB(s) THEN "nested_cb"
    ELSE IF NESTED_OB(s) THEN "nested_ob"
    ELSE "pass"

Taken(r, kind) == pc = "loop" /\ r.rc = 0 /\ Dispatch(r.s) = kind

NoCall(kind) == Event(kind, NULL, <<>>)

\* REMOVE_SH without SET_OUTPUT.
REMOVE_SH_KeepOutput(s) ==
    [s EXCEPT !.stack = delete_stack_head(s.stack), !.hsink = Tail(@)]

\* REMOVE_SH
REMOVE_SH(s) ==
    LET stk == delete_stack_head(s.stack)
    IN [s EXCEPT !.stack = stk, !.output = SET_OUTPUT(stk, s.act_div),
                 !.hsink = Tail(@)]

\* READ_TOKEN(token) finds no byte: goto end_of_input.
EndOfInput ==
    LET r == Read
    IN /\ pc = "loop"
       /\ r.rc = 1
       /\ Set([end_of_input(r.s) EXCEPT !.ev = NoCall("eof")])

LeftQuoteStep(s) ==
    LET s1 == [s EXCEPT !.quote_on = TRUE]
        s2 == IF s.quote_depth # 0 THEN put_str(s1, s.token) ELSE s1
    IN [s2 EXCEPT !.quote_depth = SizeInc(@)]

\* What has been written to the buffer output points to, with what
\* OUT_DIV(0) has moved from diversion 0 to standard output.
Emitted(s) ==
    IF s.output.lvl # 0
    THEN ARG(s.stack[Len(s.stack) - s.output.lvl + 1], s.output.n)
    ELSE IF s.output.n = 0 THEN s.sout \o s.diversion[0]
    ELSE s.diversion[s.output.n]

\* A left quote read at quote_depth 0 opens a quoted region: region keeps
\* the unread input and the length of the sink at that moment.
OpenRegion(s) ==
    IF quote_depth # 0 THEN s
    ELSE [s EXCEPT !.region = [top |-> stack = <<>>,
                               ahead |-> Avail(input, stdin),
                               mark |-> Len(Emitted(Cur))]]

LeftQuote ==
    LET r == Read
    IN /\ Taken(r, "left_quote")
       /\ Set([OpenRegion(LeftQuoteStep(r.s))
                  EXCEPT !.ev = NoCall("left_quote")])

\* RightQuoteStep with the test quote_depth > 0 in place of quote_depth > 1.
RightQuoteStep_EmitOuter(s) ==
    LET s1 == IF s.quote_depth > 0 THEN put_str(s, s.token) ELSE s
        d == SizeDec(s.quote_depth)
    IN [s1 EXCEPT !.quote_depth = d,
                  !.quote_on = IF d = 0 THEN FALSE ELSE @]

RightQuoteStep(s) ==
    LET s1 == IF s.quote_depth > 1 THEN put_str(s, s.token) ELSE s
        d == SizeDec(s.quote_depth)
    IN [s1 EXCEPT !.quote_depth = d,
                  !.quote_on = IF d = 0 THEN FALSE ELSE @]

RightQuote ==
    LET r == Read
    IN /\ Taken(r, "right_quote")
       /\ Set([RightQuoteStep(r.s) EXCEPT !.ev = NoCall("right_quote")])

Quoted ==
    LET r == Read
    IN /\ Taken(r, "quoted")
       /\ Set([put_str(r.s, r.s.token) EXCEPT !.ev = NoCall("quoted")])

\* StartCall without SET_OUTPUT.
StartCall_KeepOutput(s, e) ==
    LET stk == stack_on_mcall(s.stack)
        top == [Head(stk) EXCEPT !.name = Ptr(s.token), !.def = e.def,
                                 !.bracket_depth = SizeInc(@)]
        stk2 == <<top>> \o Tail(stk)
    IN EAT_WS([s EXCEPT !.stack = stk2, !.hsink = <<s.output>> \o @])

\* Start of macro with arguments: the frame is pushed and EAT_WS runs.
StartCall(s, e) ==
    LET stk == stack_on_mcall(s.stack)
        top == [Head(stk) EXCEPT !.name = Ptr(s.token), !.def = e.def,
                                 !.bracket_depth = SizeInc(@)]
        stk2 == <<top>> \o Tail(stk)
    IN EAT_WS([s EXCEPT !.stack = stk2,
                        !.output = SET_OUTPUT(stk2, s.act_div),
                        !.hsink = <<s.output>> \o @])

\* NoArgsCall without the look-ahead token put back.
NoArgsCall_DropLookAhead(s, e) ==
    IF e.def = NULL THEN PROCESS_BI_NO_ARGS(s)
    ELSE [s EXCEPT !.input = ungetstr(@, strip_def(Deref(e.def)))]

\* Macro call without arguments, after the look-ahead token is put back.
NoArgsCall(s, e) ==
    LET s1 == [s EXCEPT !.input = ungetstr(@, s.next_token)]
    IN IF e.def = NULL THEN PROCESS_BI_NO_ARGS(s1)
       ELSE [s1 EXCEPT !.input = ungetstr(@, strip_def(Deref(e.def)))]

\* The branch taken when the token names a macro.
MacroStep(s) ==
    LET e == Deref(ISMACRO(s.ht, s.token))
        r == ReadNext(s)
    IN IF r.rc = 1 THEN end_of_input(r.s)
       ELSE IF r.s.next_token = <<"(">> THEN StartCall(r.s, e)
       ELSE NoArgsCall(r.s, e)

LookAhead(s) == ReadNext(s).s.next_token

MacroWithArgs ==
    LET r == Read
    IN /\ Taken(r, "macro")
       /\ LookAhead(r.s) = <<"(">>
       /\ Set([MacroStep(r.s) EXCEPT !.ev = NoCall("call")])

BuiltInNoArgs ==
    LET r == Read
    IN /\ Taken(r, "macro")
       /\ LookAhead(r.s) # <<"(">>
       /\ Deref(ISMACRO(r.s.ht, r.s.token)).def = NULL
       /\ Set([MacroStep(r.s) EXCEPT !.ev = NoCall("bi_no_args")])

UserNoArgs ==
    LET r == Read
    IN /\ Taken(r, "macro")
       /\ LookAhead(r.s) # <<"(">>
       /\ Deref(ISMACRO(r.s.ht, r.s.token)).def # NULL
       /\ Set([MacroStep(r.s) EXCEPT !.ev = NoCall("user_no_args")])

\* ArgEndStep with the definition looked up when the call completes.
ArgEndStep_Lookup(s) ==
    LET p == ISMACRO(s.ht, Deref(Head(s.stack).name))
        s1 == [s EXCEPT !.stack[1].bracket_depth = SizeDec(@),
                        !.stack[1].def = IF p = NULL THEN NULL
                                         ELSE Deref(p).def]
        f == Head(s1.stack)
    IN IF f.def = NULL
       THEN LET s2 == PROCESS_BI_WITH_ARGS(s1)
            IN IF s2.pc = "done"
               THEN [s2 EXCEPT !.ev = Event("bi_fail", Ptr(f), <<>>)]
               ELSE [REMOVE_SH(s2) EXCEPT !.ev = Event("bi_end", Ptr(f), <<>>)]
       ELSE LET result == sub_args(f)
                s2 == [s1 EXCEPT !.input = ungetstr(@, result)]
            IN [REMOVE_SH(s2) EXCEPT !.ev = Event("user_end", Ptr(f), result)]

\* End of argument collection.  The frame recorded in the event is the
\* frame as the built-in or sub_args saw it.
ArgEndStep(s) ==
    LET s1 == [s EXCEPT !.stack[1].bracket_depth = SizeDec(@)]
        f == Head(s1.stack)
    IN IF f.def = NULL
       THEN LET s2 == PROCESS_BI_WITH_ARGS(s1)
            IN IF s2.pc = "done"
               THEN [s2 EXCEPT !.ev = Event("bi_fail", Ptr(f), <<>>)]
               ELSE [REMOVE_SH(s2) EXCEPT !.ev = Event("bi_end", Ptr(f), <<>>)]
       ELSE LET result == sub_args(f)
                s2 == [s1 EXCEPT !.input = ungetstr(@, result)]
            IN [REMOVE_SH(s2) EXCEPT !.ev = Event("user_end", Ptr(f), result)]

ArgEndBuiltIn ==
    LET r == Read
    IN /\ Taken(r, "arg_end")
       /\ Head(r.s.stack).def = NULL
       /\ Set(ArgEndStep(r.s))

ArgEndUser ==
    LET r == Read
    IN /\ Taken(r, "arg_end")
       /\ Head(r.s.stack).def # NULL
       /\ Set(ArgEndStep(r.s))

\* ArgCommaStep with the limit tested one argument late.
ArgCommaStep_OffByOne(s) ==
    IF Head(s.stack).act_arg = 10 THEN QUIT(s)
    ELSE LET k == Head(s.stack).act_arg + 1
             stk == [s.stack EXCEPT ![1].act_arg = k,
                                    ![1].arg_buf[k] = Ptr(<<>>)]
         IN EAT_WS([s EXCEPT !.stack = stk,
                             !.output = SET_OUTPUT(stk, s.act_div)])

ArgCommaStep(s) ==
    IF Head(s.stack).act_arg = 9 THEN QUIT(s)
    ELSE LET k == Head(s.stack).act_arg + 1
             stk == [s.stack EXCEPT ![1].act_arg = k,
                                    ![1].arg_buf[k] = Ptr(<<>>)]
         IN EAT_WS([s EXCEPT !.stack = stk,
                             !.output = SET_OUTPUT(stk, s.act_div)])

ArgComma ==
    LET r == Read
    IN /\ Taken(r, "arg_comma")
       /\ Set([ArgCommaStep(r.s) EXCEPT !.ev = NoCall("arg_comma")])

NestedCBStep(s) ==
    [put_str(s, s.token) EXCEPT !.stack[1].bracket_depth = SizeDec(@)]

NestedCB ==
    LET r == Read
    IN /\ Taken(r, "nested_cb")
       /\ Set([NestedCBStep(r.s) EXCEPT !.ev = NoCall("nested_cb")])

NestedOBStep(s) ==
    [put_str(s, s.token) EXCEPT !.stack[1].bracket_depth = SizeInc(@)]

NestedOB ==
    LET r == Read
    IN /\ Taken(r, "nested_ob")
       /\ Set([NestedOBStep(r.s) EXCEPT !.ev = NoCall("nested_ob")])

PassThrough ==
    LET r == Read
    IN /\ Taken(r, "pass")
       /\ Set([put_str(r.s, r.s.token) EXCEPT !.ev = NoCall("pass")])

(***************************************************************************)
(* The inputs.  A run reads one input from standard input (argc = 1).      *)
(***************************************************************************)
\* define(m,<def>)
DefineM(def) == W_define \o <<"(", "m", ",">> \o def \o <<")">>

BodyBytes == {"m", "(", ")", ",", GRAVE, "'", " "}

DefBytes == {"$", "1", "2", "0", "x"}

Calls ==
    {<<"m", "(", "a", ")", "\n">>,
     <<"m", "(", "a", ",", "b", "c", ")", "\n">>,
     <<"m", "(", ",", "b", ")", "\n">>,
     <<"m", " ">>}

\* name(a) and name(a,b)
Call1(name, a) == name \o <<"(">> \o a \o <<")">>

Call2(name, a, b) == name \o <<"(">> \o a \o <<",">> \o b \o <<")">>

InQuotes(str) == <<GRAVE>> \o str \o <<"'">>

Commas(n) == [i \in 1..n |-> ","]

Scenarios ==
    {W_len \o <<"(">> \o Commas(n) \o <<")", "\n">> : n \in 7..10}
    \cup {DefineM(<<"$", "1">>) \o W_divert \o <<"(", "1", ")", "m", "(">>
            \o W_divert \o <<"(", "2", ")", "a", ")", "\n">>,
          W_divert \o <<"(", "-", "1", ")", "a", "\n">> \o W_divert
            \o <<"\n">> \o W_undivert \o <<"\n">>,
          W_divert \o <<"(", "x", ")">>,
          DefineM(<<"$", "1">>) \o <<GRAVE, GRAVE, "m", "'", "'", "\n">>,
          W_divert \o <<"(", "1", ")", GRAVE, "m", "(", "'", "\n">>,
          DefineM(<<"$", "1">>)
            \o Call1(<<"m">>, InQuotes(Call1(<<"m">>, <<"a", "b">>) \o <<"c">>))
            \o <<"\n">>}
    \cup {DefineM(<<"$", "1">>) \o <<"m", "(">> \o S \o <<")">> :
            S \in {<<"a">>, <<"(", "a", ")">>, <<"a", " ", "b">>}}

\* hash_str gives a and axx the same bucket, and ht the bucket of include.
N_a == <<"a">>
N_axx == <<"a", "x", "x">>
N_ht == <<"h", "t">>
N_zz == <<"z", "z">>

\* Inputs that define and undefine macros.
TableScenarios ==
    {Call2(W_define, N_a, <<"x">>) \o Call2(W_define, N_axx, <<"y">>)
        \o Call1(W_undefine, InQuotes(N_axx)) \o N_a \o <<" ">> \o N_axx
        \o <<"\n">>,
     Call2(W_define, N_axx, <<"y">>) \o Call2(W_define, N_a, <<"x">>)
        \o Call1(W_undefine, InQuotes(N_axx)) \o N_a \o <<" ">> \o N_axx
        \o <<"\n">>,
     Call2(W_define, N_ht, <<"x">>) \o Call1(W_undefine, InQuotes(N_ht))
        \o <<"\n">>,
     Call1(W_undefine, N_zz),
     Call2(W_define, <<>>, <<"x">>) \o <<"\n">>,
     Call1(W_define, <<"m">>) \o <<"m", "\n">>,
     Call2(W_define, W_len, <<"7">>) \o W_len \o <<"\n">>,
     Call1(W_undefine, InQuotes(W_len)) \o W_len \o <<"\n">>}

\* Inputs that redefine or undefine a macro while the arguments of a call
\* of it are collected.
RedefScenarios ==
    {DefineM(<<"$", "1", "x">>)
        \o Call1(<<"m">>, Call2(W_define, InQuotes(<<"m">>), <<"y">>)
                            \o <<"a">>) \o <<"\n">>,
     DefineM(<<"$", "1", "x">>)
        \o Call1(<<"m">>, Call1(W_undefine, InQuotes(<<"m">>)) \o <<"a">>)
        \o <<"\n">>,
     Call1(W_len, Call1(W_undefine, InQuotes(W_len)) \o <<"a", "b">>)
        \o <<"\n">>,
     Call1(W_len, Call2(W_define, InQuotes(W_len), <<"x">>) \o <<"a", "b">>)
        \o <<"\n">>}

\* Inputs with the name of a built-in that is not followed by a bracket.
NameScenarios ==
    {W_len \o <<"\n">>,
     <<"a">> \o <<" ">> \o W_define \o <<" ">> \o <<"(", "b", ")", "\n">>,
     DefineM(<<"$", "1">>) \o <<"m", "(">> \o W_len \o <<",">> \o W_incr
        \o <<" ", ")", "\n">>,
     Call1(W_divert, <<"1">>) \o W_undefine \o <<"\n">> \o W_divert
        \o <<"\n">>,
     <<GRAVE>> \o W_len \o <<"'">> \o W_len \o <<"\n">>}

\* Inputs that divert and undivert: text is put into diversions 1, 2 and
\* the -1 sink, the active diversion is switched, and one call follows.
DivFills ==
    {<<>>,
     Call1(W_divert, <<"1">>) \o <<"a", "\n">>,
     Call1(W_divert, <<"-", "1">>) \o <<"z", "\n">>,
     Call1(W_divert, <<"1">>) \o <<"a", "\n">> \o Call1(W_divert, <<"2">>)
        \o <<"b", "\n">>,
     Call1(W_divert, <<"2">>) \o <<"b", "\n">> \o Call1(W_divert, <<"1">>)
        \o <<"a", "\n">> \o Call1(W_divert, <<"-", "1">>) \o <<"z", "\n">>}

DivSwitches ==
    {<<>>, W_divert \o <<" ">>, Call1(W_divert, <<"0">>),
     Call1(W_divert, <<"1">>), Call1(W_divert, <<"2">>),
     Call1(W_divert, <<"-", "1">>)}

DivCalls ==
    {W_undivert \o <<"\n">>,
     Call1(W_undivert, <<"1">>),
     Call1(W_undivert, <<"2">>),
     Call2(W_undivert, <<"1">>, <<"2">>),
     Call2(W_undivert, <<"2">>, <<"1">>),
     Call2(W_undivert, <<"0">>, <<"1">>),
     Call2(W_undivert, <<"1">>, <<"1">>),
     Call2(W_undivert, <<"x">>, <<"2">>),
     Call1(W_undivert, <<"-", "1">>),
     Call1(W_divert, <<"1", "2">>),
     Call1(W_divert, <<>>),
     Call2(W_divert, <<"2">>, <<"1">>),
     W_divnum \o <<"\n">>}

DivEnds == {<<>>, <<"c", "\n">> \o W_divert \o <<"\n">> \o W_undivert \o <<"\n">>}

\* undivert called while the arguments of len are collected.
DivNested ==
    {Call1(W_divert, <<"1">>) \o <<"a", "\n">> \o switch
        \o Call1(W_len, call) \o <<"\n">> :
        switch \in {W_divert \o <<"\n">>, Call1(W_divert, <<"2">>)},
        call \in {W_undivert, Call1(W_undivert, <<"1">>)}}

DivScenarios ==
    {fill \o switch \o call \o end :
        fill \in DivFills, switch \in DivSwitches, call \in DivCalls,
        end \in DivEnds}
    \cup DivNested

Inputs ==
    {pre \o body : pre \in {<<>>, DefineM(<<"$", "1">>)},
                   body \in SeqsUpTo(BodyBytes, MaxBody)}
    \cup {DefineM(def) \o call : def \in SeqsUpTo(DefBytes, MaxDef),
                                call \in Calls}
    \cup Scenarios
    \cup TableScenarios
    \cup DivScenarios
    \cup RedefScenarios
    \cup NameScenarios

\* The state when the m4 loop is entered, for an input drawn from I.
InitOn(I) ==
    /\ pc = "loop"
    /\ ret = 0
    /\ exit_at = "run"
    /\ stdin \in I
    /\ input = <<>>
    /\ token = <<>>
    /\ next_token = <<>>
    /\ ht = InitTable
    /\ quote_on = FALSE
    /\ quote_depth = 0
    /\ left_quote = GRAVE
    /\ right_quote = "'"
    /\ act_div = 0
    /\ diversion = [k \in 0..10 |-> <<>>]
    /\ output = DivSink(0)
    /\ stack = <<>>
    /\ sout = <<>>
    /\ in0 = stdin
    /\ hsink = <<>>
    /\ ev = NoCall("init")
    /\ region = [top |-> FALSE, ahead |-> <<>>, mark |-> 0]

Init == InitOn(Inputs) /\ buf = init_buf /\ libcall = NoLibCall

Next ==
    \/ EndOfInput
    \/ LeftQuote
    \/ RightQuote
    \/ Quoted
    \/ MacroWithArgs
    \/ BuiltInNoArgs
    \/ UserNoArgs
    \/ ArgEndBuiltIn
    \/ ArgEndUser
    \/ ArgComma
    \/ NestedCB
    \/ NestedOB
    \/ PassThrough

Spec == Init /\ [][Next]_vars

(***************************************************************************)
(* The buffer on its own: calls of ungetstr and getch on one struct buf    *)
(* near its capacity, where realloc may fail.  The variables of main stay  *)
(* as at start-up.                                                         *)
(***************************************************************************)
\* How far from INIT_BUF_SIZE the fill index is taken.
BufRoom == 3

\* The strings pushed.
BufTexts == SeqsUpTo({"a", "b"}, 2) \ {<<>>}

Filled(n) == [a |-> [k \in 1..n |-> "x"], s |-> INIT_BUF_SIZE]

BufInit ==
    /\ InitOn({<<>>})
    /\ \E n \in (INIT_BUF_SIZE - BufRoom)..INIT_BUF_SIZE : buf = Filled(n)
    /\ libcall = NoLibCall

\* ungetstr(b, str), with mem calls of realloc succeeding.
Ungetstr(str, mem) ==
    LET r == ungetstr_buf(buf, str, mem)
    IN /\ Len(buf.a) < INIT_BUF_SIZE + BufRoom
       /\ buf' = r.b
       /\ libcall' = LibCall("ungetstr", str, r.rc)

\* getch(b, 0)
Getch ==
    LET r == getch_buf(buf)
    IN /\ Len(buf.a) > INIT_BUF_SIZE - BufRoom
       /\ buf' = r.b
       /\ libcall' = LibCall("getch", <<>>, 0)

MainVars ==
    <<pc, ret, exit_at, stdin, input, token, next_token, ht, quote_on,
      quote_depth, left_quote, right_quote, act_div, diversion, output,
      stack, sout, in0, hsink, ev, region>>

BufNext ==
    /\ UNCHANGED MainVars
    /\ \/ \E str \in BufTexts, mem \in 0..1 : Ungetstr(str, mem)
       \/ Getch

BufSpec == BufInit /\ [][BufNext]_vars

(***************************************************************************)
(* strip_def and sub_args as functions of a definition, sub_args on a      *)
(* frame whose arguments 1..k are allocated and empty and whose other      *)
(* arguments are absent.                                                   *)
(***************************************************************************)
\* How long the definitions are at most.
MaxStrip == 4

StripBytes == {"$", "0", "1", "9", "x"}

EmptyFrame(def, k) ==
    [init_mcall EXCEPT !.name = Ptr(<<"m">>), !.def = Ptr(def),
                       !.act_arg = k,
                       !.arg_buf = [j \in 0..9 |->
                                      IF j \in 1..k THEN Ptr(<<>>) ELSE NULL]]

StripInit == InitOn({<<>>}) /\ buf = init_buf /\ libcall = NoLibCall

StripCall(def, k) ==
    /\ libcall' = LibCall("strip_def", [def |-> def, f |-> EmptyFrame(def, k)],
                          [stripped |-> strip_def(def),
                           substituted |-> sub_args(EmptyFrame(def, k))])
    /\ UNCHANGED buf

StripNext ==
    /\ libcall.op = "none"
    /\ UNCHANGED MainVars
    /\ \E def \in SeqsUpTo(StripBytes, MaxStrip), k \in 1..9 : StripCall(def, k)

StripSpec == StripInit /\ [][StripNext]_vars

(***************************************************************************)
(* Every function that appends to a struct buf, with the positions it      *)
(* writes: a write is a pair <<position, capacity in force>>, positions    *)
(* counted from 0 as in the code and kept at the width of size_t.          *)
(***************************************************************************)
\* How many bytes the included file holds at most.
MaxFile == 3

ToSize(n) == n % (SIZE_MAX + 1)

Writes(from, n, cap) == {<<ToSize(from + k), cap>> : k \in 0..(n - 1)}

\* The test of put_str, sub_args, buf_dump_buf and include before a copy.
RoomFor(b, len, mem) ==
    IF len > BUF_FREE_SIZE(b) THEN grow_buf(b, len, mem)
    ELSE [rc |-> 0, b |-> b, mem |-> mem]

\* memcpy(b->a + b->i, s, len); b->i += len; after the test above: the body
\* of put_str, of buf_dump_buf and of the argument copy of sub_args.
put_str_buf(b, str, mem) ==
    LET g == RoomFor(b, Len(str), mem)
    IN IF g.rc = 1 THEN [rc |-> 1, b |-> b, writes |-> {}]
       ELSE [rc |-> 0, b |-> [g.b EXCEPT !.a = @ \o str],
             writes |-> Writes(Len(b.a), Len(str), g.b.s)]

\* include, once filesize has returned fs: the file yields the bytes of
\* file, which need not be fs many.  The bytes are stored downwards from
\* back_i = i + fs, and the fill index moves only if back_i comes back to i.
include_buf(b, fs, file, mem) ==
    LET g == RoomFor(b, fs, mem)
        i == Len(b.a)
        back_i == ToSize(i + fs + (SIZE_MAX + 1) - Len(file))
        over == [p \in 1..i |->
                    IF i + fs - (p - 1) <= Len(file)
                    THEN file[i + fs - (p - 1)] ELSE b.a[p]]
    IN IF g.rc = 1 THEN [rc |-> 1, b |-> b, writes |-> {}]
       ELSE [rc |-> IF back_i # i THEN 1 ELSE 0,
             b |-> [g.b EXCEPT !.a = IF back_i # i THEN over
                                     ELSE b.a \o Reverse(file)],
             writes |-> {<<ToSize(i + fs + (SIZE_MAX + 1) - k), g.b.s>> :
                            k \in 1..Len(file)}]

\* The fill indices the calls start from: an almost empty buffer and one
\* filled almost to its capacity.
Low(n) == n <= BufRoom
High(n) == n >= INIT_BUF_SIZE - BufRoom /\ n <= INIT_BUF_SIZE + BufRoom

AppendInit ==
    /\ InitOn({<<>>})
    /\ \E n \in {k \in 0..INIT_BUF_SIZE : Low(k) \/ High(k)} : buf = Filled(n)
    /\ libcall = NoLibCall

\* A call and what it wrote.  A write outside the buffer is undefined: the
\* run goes on with the result the code computes, or it is killed there.
AppendCall(op, r) ==
    LET outside == \E w \in r.writes : w[1] >= w[2]
    IN \E killed \in (IF outside THEN BOOLEAN ELSE {FALSE}) :
        /\ buf' = IF killed THEN buf ELSE r.b
        /\ libcall' = LibCall(op, [writes |-> r.writes, outside |-> outside,
                                   killed |-> killed], r.rc)

\* ungetch(b, ch)
Ungetch(ch, mem) ==
    LET r == ungetch_buf(buf, ch, mem)
    IN AppendCall("ungetch",
           [rc |-> r.rc, b |-> r.b,
            writes |-> IF r.rc = EOF THEN {}
                       ELSE {<<Len(buf.a), r.b.s>>}])

\* put_str(b, str), buf_dump_buf(b, src) with src holding str, and the
\* copy of an argument holding str by sub_args.
PutStr(str, mem) == AppendCall("put_str", put_str_buf(buf, str, mem))

\* include(b, fn) for a regular file of which stat reports fs bytes.
Include(fs, file, mem) ==
    AppendCall("include", include_buf(buf, fs, file, mem))

NoWrites == [writes |-> {}, outside |-> FALSE, killed |-> FALSE]

\* getch(b, 0)
Unread ==
    /\ buf.a # <<>>
    /\ Low(Len(buf.a)) \/ Len(buf.a) > INIT_BUF_SIZE - BufRoom
    /\ buf' = getch_buf(buf).b
    /\ libcall' = LibCall("getch", NoWrites, 0)

\* delete_buf(b), and the reset of the fill index by OUT_DIV and
\* buf_dump_buf.
delete_buf ==
    /\ buf.a # <<>>
    /\ buf' = [buf EXCEPT !.a = <<>>]
    /\ libcall' = LibCall("delete_buf", NoWrites, 0)

AppendNext ==
    /\ UNCHANGED MainVars
    /\ libcall.op # "none" => ~libcall.arg.killed
    /\ \/ /\ Len(buf.a) < BufRoom \/ (High(Len(buf.a)) /\
                                       Len(buf.a) < INIT_BUF_SIZE + BufRoom)
          /\ \/ \E mem \in 0..1 : Ungetch("a", mem)
             \/ \E n \in 1..MaxFile, mem \in 0..1 :
                   PutStr([k \in 1..n |-> "a"], mem)
             \/ \E fs \in 0..MaxFile, n \in 0..MaxFile, mem \in 0..1 :
                   Include(fs, [k \in 1..n |-> "b"], mem)
       \/ Unread
       \/ delete_buf

AppendSpec == AppendInit /\ [][AppendNext]_vars

(***************************************************************************)
(* The arithmetic built-ins as functions of their collected arguments.     *)
(* The result is formatted through a cast to unsigned long, which is as    *)
(* wide as size_t where the program is built with cc and narrower where it *)
(* is built with cl for 64-bit Windows (README, src/m4.c:24-27); both      *)
(* widths are drawn here.                                                  *)
(***************************************************************************)
MaxArithArgs == 3

ArithOps == {"incr", "add", "mult", "sub", "div", "mod"}

ULongWidths == {SizeBits, SizeBits \div 2}

\* Arguments: empty, not a number, a numeral with a leading zero, and
\* numerals around the largest unsigned long and the largest size_t.
ArithTexts ==
    {<<>>, <<"x">>, <<"0", "7">>}
    \cup {NumStr(n) : n \in {0, 1, 2, 2 ^ (SizeBits \div 2) - 1,
                             2 ^ (SizeBits \div 2), SIZE_MAX - 1, SIZE_MAX,
                             SIZE_MAX + 1}}

\* The frame of a call whose collected arguments are args.
FrameOf(args) ==
    [init_mcall EXCEPT
        !.arg_buf = [j \in 0..9 |-> IF j \in 1..Len(args) THEN Ptr(args[j])
                                    ELSE IF j = 1 THEN Ptr(<<>>) ELSE NULL]]

ArithInit ==
    /\ InitOn({<<>>})
    /\ buf = init_buf
    /\ libcall = NoLibCall

\* The built-in op runs on an empty input buffer, for an unsigned long of
\* the given width.
ArithCall(op, args, bits) ==
    LET r == ArithResult(op, FrameOf(args))
        u == ungetstr_buf(buf, FormatULong(Deref(r), bits), 1)
    IN /\ libcall' = LibCall(op, [args |-> args, bits |-> bits],
                             IF r = NULL THEN 1 ELSE u.rc)
       /\ buf' = IF r = NULL THEN buf ELSE u.b

\* One call is made in a run.
ArithNext ==
    /\ libcall = NoLibCall
    /\ UNCHANGED MainVars
    /\ \E op \in ArithOps, args \in SeqsUpTo(ArithTexts, MaxArithArgs),
          bits \in ULongWidths : ArithCall(op, args, bits)

ArithSpec == ArithInit /\ [][ArithNext]_vars

(***************************************************************************)
(* translit as a function of its three arguments and of what the object    *)
(* after the map holds.                                                    *)
(***************************************************************************)
MaxFrom == 3
MaxText == 2

TranslitBytes == {"a", "b", HIGH}

\* What the object after the map may hold: -1, NUL, or another value.
WildValues == {PASS, DELETE, "x"}

TranslitCall(str, from, to, wild) ==
    LET r == translit(str, from, to, wild)
        u == ungetstr_buf(buf, r.text, 1)
    IN /\ libcall' = LibCall("translit",
                             [s |-> str, from |-> from, to |-> to,
                              oob |-> r.map.oob], u.rc)
       /\ buf' = u.b

\* One call is made in a run.
TranslitNext ==
    /\ libcall = NoLibCall
    /\ UNCHANGED MainVars
    /\ \E str \in SeqsUpTo(TranslitBytes, MaxText),
          from \in SeqsUpTo(TranslitBytes, MaxFrom),
          to \in SeqsUpTo(TranslitBytes, MaxText),
          wild \in WildValues : TranslitCall(str, from, to, wild)

TranslitSpec == ArithInit /\ [][TranslitNext]_vars

(***************************************************************************)
(* Notions the properties below are stated with.                           *)
(***************************************************************************)
IsIdentByte(c) == isalnum(c) \/ c = "_"

\* The longest prefix of s made of identifier bytes.
RECURSIVE IdentPrefix(_)
IdentPrefix(s) ==
    IF s = <<>> \/ ~IsIdentByte(Head(s)) THEN <<>>
    ELSE <<Head(s)>> \o IdentPrefix(Tail(s))

\* The tokens of a byte string: a maximal identifier, or one other byte.
RECURSIVE TokensOf(_)
TokensOf(s) ==
    IF s = <<>> THEN <<>>
    ELSE LET t == IF isalpha(Head(s)) \/ Head(s) = "_" THEN IdentPrefix(s)
                  ELSE <<Head(s)>>
         IN <<t>> \o TokensOf(SubSeq(s, Len(t) + 1, Len(s)))

\* No token of s names an entry of the symbol table at start-up.
NoSymbolToken(s) ==
    \A i \in DOMAIN TokensOf(s) : lookup_entry(InitTable, TokensOf(s)[i]) = NULL

NoQuoteByte(s) == \A i \in DOMAIN s : s[i] \notin {GRAVE, "'"}

(***************************************************************************)
(* C1: an input none of whose tokens is in the symbol table is written to  *)
(* standard output byte for byte by the end of the run.  Stated for the    *)
(* inputs without quote bytes, which the quote handling consumes.          *)
(* Violated: an identifier that ends the input is never written.           *)
(***************************************************************************)
C1_PassThrough ==
    (pc = "done" /\ NoSymbolToken(in0) /\ NoQuoteByte(in0)) => sout = in0

(***************************************************************************)
(* C2: getword signals end-of-input only when no byte is available; on a   *)
(* letter or underscore it returns the maximal run of identifier bytes,    *)
(* also when the input ends the run; every byte consumed is in the token   *)
(* or pushed back.                                                         *)
(* Violated: when the input ends an identifier getword returns 1.          *)
(***************************************************************************)
C2_GetwordTokens ==
    pc = "loop" =>
        LET a == Avail(input, stdin)
            g == getword(input, stdin)
        IN /\ g.rc = 1 => a = <<>>
           /\ (a # <<>> /\ (isalpha(Head(a)) \/ Head(a) = "_"))
                => (g.rc = 0 /\ g.token = IdentPrefix(a))
           /\ g.rc = 0 => g.token \o Avail(g.input, g.stdin) = a

(***************************************************************************)
(* C3: after every iteration quote_depth >= 0 and quote_on holds iff       *)
(* quote_depth > 0, also after a right quote read at quote_depth 0.        *)
(* Violated: a right quote at quote_depth 0 wraps the unsigned counter.    *)
(***************************************************************************)
C3_QuoteOnIffDepth ==
    pc = "loop" => (quote_depth >= 0 /\ (quote_on <=> quote_depth > 0))

(***************************************************************************)
(* C4: the exit status is zero exactly when end-of-input is reached with   *)
(* an empty call stack and quote_depth = 0 and no fatal error; end-of-     *)
(* input with a non-empty stack or quote_depth > 0 gives a non-zero status.*)
(* Violated: after a right quote at quote_depth 0 the run ends with        *)
(* quote_depth > 0 and status zero.                                        *)
(***************************************************************************)
C4_ExitStatus ==
    pc = "done" =>
        /\ ret = 0 <=> (exit_at = "eoi" /\ stack = <<>> /\ quote_depth = 0)
        /\ (exit_at = "eoi" /\ (stack # <<>> \/ quote_depth > 0)) => ret # 0

(***************************************************************************)
(* C5: after every iteration every frame on the call stack has             *)
(* 1 <= act_arg <= 9 and bracket_depth >= 1, and an unquoted comma read at *)
(* bracket_depth 1 when act_arg is already 9 ends the run with a fatal     *)
(* error and creates no tenth argument.  A comma is unquoted when the      *)
(* dispatch reaches ARG_COMMA, that is when quote_on is off.               *)
(***************************************************************************)
FrameOk(f) ==
    /\ 1 <= f.act_arg /\ f.act_arg <= 9
    /\ f.bracket_depth >= 1
    /\ \A j \in 1..9 : f.arg_buf[j] # NULL <=> j <= f.act_arg

TenthComma ==
    /\ Taken(Read, "arg_comma")
    /\ ~quote_on
    /\ Head(stack).act_arg = 9

C5_FrameBounds ==
    /\ [](pc = "loop" => \A i \in DOMAIN stack : FrameOk(stack[i]))
    /\ [][TenthComma => (pc' = "done" /\ exit_at' = "fatal" /\ ret' = 1
                         /\ stack' = stack)]_vars

\* The tenth comma of a call has been read.
C5_Witness ==
    /\ pc = "done" /\ exit_at = "fatal" /\ ev.kind = "arg_comma"
    /\ stack # <<>> /\ Head(stack).act_arg = 9
    /\ Head(stack).arg_buf[9] # NULL

(***************************************************************************)
(* C6: while a call is pending only unquoted ( and ) change the top        *)
(* frame's bracket_depth, only an unquoted comma at bracket_depth 1 starts *)
(* a new argument, the call is finalized exactly by the unquoted ) read at *)
(* bracket_depth 1, and a parenthesis or comma read while quote_depth > 0  *)
(* is appended to the argument and changes neither bracket_depth nor       *)
(* act_arg.                                                                *)
(* Violated: after a right quote read at quote_depth 0 the counter is      *)
(* SIZE_MAX with quote_on off, and the next ) finalizes the call.          *)
(***************************************************************************)
IsDelimiter(t) == t \in {<<"(">>, <<")">>, <<",">>}

C6_Step ==
    LET t == Read.s.token
        top == Head(stack)
        same == Len(stack') = Len(stack)
        popped == Len(stack') < Len(stack)
        closes == t = <<")">> /\ quote_depth = 0 /\ top.bracket_depth = 1
    IN (pc = "loop" /\ stack # <<>> /\ Read.rc = 0) =>
        /\ (same /\ Head(stack').bracket_depth # top.bracket_depth)
              => (t \in {<<"(">>, <<")">>} /\ quote_depth = 0)
        /\ (same /\ Head(stack').act_arg # top.act_arg)
              => (t = <<",">> /\ quote_depth = 0 /\ top.bracket_depth = 1)
        /\ popped => closes
        /\ (closes /\ pc' = "loop") => popped
        /\ (quote_depth > 0 /\ IsDelimiter(t))
              => stack' = [stack EXCEPT ![1].arg_buf[top.act_arg] =
                                            Ptr(Deref(@) \o t)]

C6_OnlyUnquotedDelimiters == [][C6_Step]_vars

(***************************************************************************)
(* C7: when a user-defined call completes, the text pushed onto the input  *)
(* is the frame's definition with every $d, d in 1..9, replaced by the     *)
(* collected argument d (empty when not supplied) and every other byte     *)
(* unchanged, $0 and a $ before a non-digit or at the end included.        *)
(***************************************************************************)
IsDollarArg(def, i) ==
    i < Len(def) /\ def[i] = "$" /\ def[i + 1] \in DigitSet \ {"0"}

CollectedArg(f, d) == IF f.arg_buf[d] = NULL THEN <<>> ELSE Deref(f.arg_buf[d])

\* What position i of the definition contributes to the substituted text.
SubstPiece(def, f, i) ==
    IF IsDollarArg(def, i) THEN CollectedArg(f, DigitVal(def[i + 1]))
    ELSE IF i > 1 /\ IsDollarArg(def, i - 1) THEN <<>>
    ELSE <<def[i]>>

Substituted(def, f) == Concat([i \in 1..Len(def) |-> SubstPiece(def, f, i)])

IsPrefix(a, b) == Len(a) <= Len(b) /\ SubSeq(b, 1, Len(a)) = a

C7_Substitution ==
    ev.kind = "user_end" =>
        LET f == Deref(ev.frame)
            want == Substituted(Deref(f.def), f)
        IN /\ ev.pushed = want
           /\ IsPrefix(want, Avail(input, stdin))

\* A call has completed whose definition names a supplied, non-empty
\* argument and keeps a $ that is not an argument reference.
C7_Witness ==
    /\ ev.kind = "user_end"
    /\ LET f == Deref(ev.frame)
           def == Deref(f.def)
       IN /\ \E i \in DOMAIN def :
                IsDollarArg(def, i)
                /\ CollectedArg(f, DigitVal(def[i + 1])) # <<>>
          /\ \E i \in DOMAIN def : def[i] = "$" /\ ~IsDollarArg(def, i)

(***************************************************************************)
(* C8: with m defined as $1, the call m(S) writes exactly S to the output, *)
(* for every S without unquoted comma or unquoted unbalanced parenthesis.  *)
(* Stated for the runs whose input is the definition followed by the call, *)
(* with S free of quote bytes, commas, leading white space and macro       *)
(* names.                                                                  *)
(* Violated: when S ends in an identifier and the call ends the input, the *)
(* rescanned identifier is lost at end of input.                           *)
(***************************************************************************)
RECURSIVE ParenDepth(_, _)
\* The bracket depth after s, starting from d; -1 once a ) is unmatched.
ParenDepth(s, d) ==
    IF d < 0 \/ s = <<>> THEN d
    ELSE ParenDepth(Tail(s), IF Head(s) = "(" THEN d + 1
                             ELSE IF Head(s) = ")" THEN d - 1 ELSE d)

PlainBody(S) ==
    /\ NoQuoteByte(S)
    /\ \A i \in DOMAIN S : S[i] # ","
    /\ ParenDepth(S, 0) = 0
    /\ S # <<>> => ~WS(<<S[1]>>)
    /\ NoSymbolToken(S)
    /\ \A i \in DOMAIN TokensOf(S) : TokensOf(S)[i] # <<"m">>

IdentityCallHead == DefineM(<<"$", "1">>) \o <<"m", "(">>

IsIdentityCall(s) ==
    /\ Len(s) > Len(IdentityCallHead)
    /\ IsPrefix(IdentityCallHead, s)
    /\ Last(s) = ")"
    /\ PlainBody(SubSeq(s, Len(IdentityCallHead) + 1, Len(s) - 1))

C8_IdentityMacro ==
    (pc = "done" /\ IsIdentityCall(in0))
        => sout = SubSeq(in0, Len(IdentityCallHead) + 1, Len(in0) - 1)

(***************************************************************************)
(* C9: a balanced quoted region read at top level (empty call stack,       *)
(* quote_depth 0) is written to the sink with exactly its outermost quote  *)
(* pair removed and nothing else changed, once, and no token inside it is  *)
(* expanded: when the region closes, the input consumed since it opened is *)
(* left quote, the text written since, right quote.                        *)
(***************************************************************************)
RegionClosed == ev.kind = "right_quote" /\ quote_depth = 0 /\ region.top

RegionRead ==
    SubSeq(region.ahead, 1, Len(region.ahead) - Len(Avail(input, stdin)))

RegionWritten == SubSeq(Emitted(Cur), region.mark + 1, Len(Emitted(Cur)))

C9_QuotedRegion ==
    RegionClosed =>
        /\ stack = <<>>
        /\ region.ahead = RegionRead \o Avail(input, stdin)
        /\ RegionRead = <<left_quote>> \o RegionWritten \o <<right_quote>>

\* A region has closed that held a nested quote pair around a macro name.
C9_Witness ==
    /\ RegionClosed
    /\ RegionWritten = <<GRAVE, "m", "'">>
    /\ lookup_entry(ht, <<"m">>) # NULL

(***************************************************************************)
(* C10: after any call completes, its frame is popped and the active       *)
(* output sink is the sink that was active immediately before the frame    *)
(* was pushed.                                                             *)
(* Violated as stated: a divert call that completes with the stack empty   *)
(* leaves the sink on the new diversion.                                   *)
(***************************************************************************)
FramePopped == Len(stack') < Len(stack)

C10_SinkAsBeforePush ==
    [][FramePopped => (stack' = Tail(stack) /\ output' = Head(hsink))]_vars

(***************************************************************************)
(* C10, amended: after a call completes its frame is popped and the sink   *)
(* is recomputed: with a call still pending it is the active argument of   *)
(* the enclosing frame, which is the sink from before the push; with the   *)
(* stack empty it is diversion act_div, which is the sink from before the  *)
(* push exactly when act_div is what it was then.                          *)
(***************************************************************************)
C10_SinkRecomputed ==
    [][FramePopped =>
        /\ stack' = Tail(stack)
        /\ stack' # <<>> =>
              /\ output' = [lvl |-> Len(stack'), n |-> Head(stack').act_arg]
              /\ output' = Head(hsink)
        /\ stack' = <<>> =>
              /\ output' = DivSink(act_div')
              /\ output' = Head(hsink) <=> act_div' = Head(hsink).n]_vars

\* A call inside the arguments of another has completed after the
\* diversion was changed.
C10_Witness ==
    /\ ev.kind \in {"bi_end", "user_end"}
    /\ stack # <<>>
    /\ act_div # 0
    /\ output = [lvl |-> Len(stack), n |-> Head(stack).act_arg]

(***************************************************************************)
(* C11: after delete(name) succeeds, lookup(name) reports absence and the  *)
(* lookup of every other stored name returns the same entry as before,     *)
(* also when the deleted entry is the head of a chain with successors;     *)
(* delete of an absent name signals absence and changes nothing.           *)
(* Violated: deleting the head of a chain empties the whole bucket.        *)
(***************************************************************************)
StoredEntries(t) == UNION {{t[h][i] : i \in DOMAIN t[h]} : h \in DOMAIN t}

StoredNames(t) == {e.name : e \in StoredEntries(t)}

\* The iteration finalizes a call of undefine.
UndefineEnds ==
    /\ Taken(Read, "arg_end")
    /\ Head(stack).name = Ptr(W_undefine)
    /\ Head(stack).def = NULL

C11_DeleteStep ==
    LET name == ARG(Head(stack), 1)
    IN UndefineEnds =>
        IF lookup_entry(ht, name) = NULL
        THEN ht' = ht /\ exit_at' = "fatal"
        ELSE /\ pc' = "loop"
             /\ lookup_entry(ht', name) = NULL
             /\ \A other \in StoredNames(ht) \ {name} :
                    lookup_entry(ht', other) = lookup_entry(ht, other)

C11_DeleteKeepsOthers == [][C11_DeleteStep]_vars

(***************************************************************************)
(* C12: in every reachable state every entry of the symbol table has a     *)
(* non-empty name, and an entry has an absent definition if and only if it *)
(* is a built-in (one of the names entered at start-up, not redefined).    *)
(* Violated: define with an empty first argument stores an entry whose     *)
(* name is empty.                                                          *)
(***************************************************************************)
BuiltInNames == {BuiltIns[i] : i \in DOMAIN BuiltIns}

C12_DefAbsentIffBuiltIn ==
    /\ \A e \in StoredEntries(ht) : e.def = NULL => e.name \in BuiltInNames
    /\ ev.kind = "init" =>
          \A n \in BuiltInNames :
              lookup_entry(ht, n) # NULL /\ Deref(lookup_entry(ht, n)).def = NULL

C12_TableEntries ==
    /\ \A e \in StoredEntries(ht) : e.name # <<>>
    /\ C12_DefAbsentIffBuiltIn

(***************************************************************************)
(* C13: after a string is pushed onto the input stream, the next reads, as *)
(* many as the string has bytes, return its bytes in order, first byte     *)
(* first, and the stream is then exactly as it was before the push.        *)
(* Checked for the text every completed user-defined call pushes, and in   *)
(* every state between iterations for each string of PushTexts.            *)
(***************************************************************************)
RECURSIVE ReadBytes(_, _, _)
\* n calls of getch: the bytes returned and the stream left.
ReadBytes(inp, sin, n) ==
    IF n = 0 THEN [bytes |-> <<>>, input |-> inp, stdin |-> sin]
    ELSE LET g == getch(inp, sin)
             r == ReadBytes(g.input, g.stdin, n - 1)
         IN [r EXCEPT !.bytes = <<g.c>> \o @]

PushTexts == SeqsUpTo({"a", "b"}, 2)

ReadsBack(str, inp, sin, inp2, sin2) ==
    ReadBytes(inp2, sin2, Len(str)) = [bytes |-> str, input |-> inp, stdin |-> sin]

C13_PushbackOrder ==
    /\ [](pc = "loop" =>
            \A str \in PushTexts :
                ReadsBack(str, input, stdin, ungetstr(input, str), stdin))
    /\ [][(Taken(Read, "arg_end") /\ Head(stack).def # NULL) =>
            ReadsBack(ev'.pushed, Read.s.input, Read.s.stdin, input', stdin')]_vars

\* A completed call has pushed two different bytes on top of text that was
\* already pushed back.
C13_Witness ==
    /\ ev.kind = "user_end"
    /\ ev.pushed = <<"a", "b">>
    /\ Len(input) > Len(ev.pushed)

(***************************************************************************)
(* C14: pushing a string is atomic: when it fails because the buffer       *)
(* cannot grow, the contents and the fill index of the buffer are as       *)
(* before the call.                                                        *)
(* Violated: the bytes pushed before the failing ungetch stay in the       *)
(* buffer.                                                                 *)
(***************************************************************************)
C14_AtomicPush ==
    [][(libcall'.op = "ungetstr" /\ libcall'.rc = 1) => buf'.a = buf.a]_vars

(***************************************************************************)
(* C15: act_div is in 0..10 in every reachable state; divert(n) sets it to *)
(* n for a single digit 0..9 and to 10 for the string -1, divert without   *)
(* arguments sets it to 0, and any other argument is a fatal error that    *)
(* leaves act_div unchanged.                                               *)
(***************************************************************************)
\* The closing bracket of a call of the built-in divert is read.
DivertEnds ==
    /\ Taken(Read, "arg_end")
    /\ Head(stack).name = Ptr(W_divert)
    /\ Head(stack).def = NULL

\* The built-in divert is read and the token after it is not a bracket.
DivertNoArgs ==
    /\ Taken(Read, "macro")
    /\ Read.s.token = W_divert
    /\ Deref(ISMACRO(Read.s.ht, Read.s.token)).def = NULL
    /\ ReadNext(Read.s).rc = 0
    /\ LookAhead(Read.s) # <<"(">>

DigitText(n) == <<Digits[n + 1]>>

C15_DivertStep ==
    LET a == ARG(Head(stack), 1)
    IN /\ DivertEnds =>
            IF \E n \in 0..9 : a = DigitText(n)
            THEN \A n \in 0..9 : a = DigitText(n) => act_div' = n /\ pc' = "loop"
            ELSE IF a = <<"-", "1">>
            THEN act_div' = 10 /\ pc' = "loop"
            ELSE exit_at' = "fatal" /\ act_div' = act_div
       /\ DivertNoArgs => act_div' = 0 /\ pc' = "loop"

C15_ActiveDiversion == [](act_div \in 0..10) /\ [][C15_DivertStep]_vars

\* divert(-1) has completed.
C15_Witness ==
    /\ ev.kind = "bi_end"
    /\ Deref(ev.frame).name = Ptr(W_divert)
    /\ ARG(Deref(ev.frame), 1) = <<"-", "1">>
    /\ act_div = 10

(***************************************************************************)
(* C16: no byte appended to diversion buffer 10 (the -1 sink) is ever      *)
(* written to standard output, under any sequence of divert and undivert   *)
(* calls (with or without arguments) and at shutdown.                      *)
(* Stated on every step: buffer 10 keeps what it holds (it is never        *)
(* emptied, so never flushed or moved), and what the step adds to standard *)
(* output is buffer 0 followed by the contents of buffers among 1..9 that  *)
(* the step empties.                                                       *)
(***************************************************************************)
\* The diversions k in 1..9 that hold text before the step and none after.
Emptied == {k \in 1..9 : diversion[k] # <<>> /\ diversion'[k] = <<>>}

\* The sequences without repetition of members of S.
Orders(S) ==
    {q \in SeqsUpTo(S, Cardinality(S)) :
        \A i, j \in DOMAIN q : i # j => q[i] # q[j]}

\* The contents of the diversions named by ks, in that order.
Contents(d, ks) == Concat([i \in DOMAIN ks |-> d[ks[i]]])

C16_SinkStep ==
    /\ IsPrefix(diversion[10], diversion'[10])
    /\ \E ks \in Orders(Emptied) :
          sout' = sout \o diversion[0] \o Contents(diversion, ks)

C16_SinkNeverEmitted == [][C16_SinkStep]_vars

\* A clean exit after undivert(1) was called with the -1 sink active: the
\* sink holds its own text and that of diversion 1, and diversion 2 has
\* been written at shutdown.
C16_Witness ==
    /\ pc = "done"
    /\ ret = 0
    /\ diversion[10] = <<"z", "\n", "a", "\n">>
    /\ sout = <<"b", "\n">>

(***************************************************************************)
(* C17: undivert called without arguments flushes diversions 0..9 to       *)
(* standard output in ascending index order and leaves each of them empty, *)
(* whichever diversion is active at the time of the call.                  *)
(* Violated: with a non-zero diversion active the call is a fatal error.   *)
(***************************************************************************)
\* The built-in undivert is read and the token after it is not a bracket.
UndivertNoArgs ==
    /\ Taken(Read, "macro")
    /\ Read.s.token = W_undivert
    /\ Deref(ISMACRO(Read.s.ht, Read.s.token)).def = NULL
    /\ ReadNext(Read.s).rc = 0
    /\ LookAhead(Read.s) # <<"(">>

Ascending == [k \in 1..10 |-> k - 1]

FlushedInOrder ==
    /\ sout' = sout \o Contents(diversion, Ascending)
    /\ \A k \in 0..9 : diversion'[k] = <<>>
    /\ pc' = "loop"

C17_UndivertAllAnywhere == [][UndivertNoArgs => FlushedInOrder]_vars

(***************************************************************************)
(* C17, amended: undivert called without arguments while diversion 0 is    *)
(* active flushes diversions 0..9 to standard output in ascending index    *)
(* order and leaves each of them empty; called while any other diversion   *)
(* is active it is a fatal error that writes and empties nothing.          *)
(***************************************************************************)
C17_UndivertAllStep ==
    UndivertNoArgs =>
        IF act_div = 0 THEN FlushedInOrder
        ELSE /\ exit_at' = "fatal"
             /\ sout' = Read.s.sout
             /\ diversion' = Read.s.diversion

C17_UndivertAllFromZero == [][C17_UndivertAllStep]_vars

\* undivert without arguments has written diversions 1 and 2, which were
\* filled in the order 2, 1, and the -1 sink still holds its text.
C17_Witness ==
    /\ ev.kind = "bi_no_args"
    /\ token = W_undivert
    /\ pc = "loop"
    /\ sout = <<"a", "\n", "b", "\n">>
    /\ diversion[10] # <<>>

(***************************************************************************)
(* C18: undivert(ids) called while the active diversion a is non-zero      *)
(* appends the contents of each named diversion k in 1..9 with k # a to    *)
(* buffer a and empties buffer k; naming 0 or a itself is skipped without  *)
(* error, and every buffer that is neither a nor a named k is unchanged,   *)
(* so no diverted byte is lost or duplicated.                              *)
(***************************************************************************)
\* The closing bracket of a call of the built-in undivert is read.
UndivertEnds ==
    /\ Taken(Read, "arg_end")
    /\ Head(stack).name = Ptr(W_undivert)
    /\ Head(stack).def = NULL

\* The diversions in 1..9 that the arguments of frame f name.
Named(f) == {k \in 1..9 : \E i \in 1..9 : ARG(f, i) = DigitText(k)}

\* The first argument of f that names k.
FirstNaming(f, k) ==
    CHOOSE i \in 1..9 :
        ARG(f, i) = DigitText(k) /\ \A j \in 1..(i - 1) : ARG(f, j) # DigitText(k)

\* The members of S in the order in which the arguments of f name them.
InArgOrder(f, S) ==
    CHOOSE q \in Orders(S) :
        /\ Len(q) = Cardinality(S)
        /\ \A i, j \in DOMAIN q :
              i < j => FirstNaming(f, q[i]) < FirstNaming(f, q[j])

C18_UndivertStep ==
    LET f == Head(stack)
        a == act_div
        d == Read.s.diversion
        moved == Named(f) \ {a}
    IN (UndivertEnds /\ a # 0) =>
          /\ pc' = "loop"
          /\ diversion'[a] = d[a] \o Contents(d, InArgOrder(f, moved))
          /\ \A k \in moved : diversion'[k] = <<>>
          /\ \A k \in (0..10) \ (moved \cup {a}) : diversion'[k] = d[k]
          /\ sout' = Read.s.sout

C18_UndivertIntoActive == [][C18_UndivertStep]_vars

\* undivert(2,1) has completed with the -1 sink active: the sink holds its
\* own text, then that of diversion 2, then that of diversion 1.
C18_Witness ==
    /\ ev.kind = "bi_end"
    /\ Deref(ev.frame).name = Ptr(W_undivert)
    /\ act_div = 10
    /\ diversion[10] = <<"z", "\n", "b", "\n", "a", "\n">>
    /\ diversion[1] = <<>>
    /\ diversion[2] = <<>>

(***************************************************************************)
(* C19: every write to standard output is a flush of diversion buffer 0,   *)
(* and such flushes happen only at the top of an outer-loop iteration and  *)
(* at shutdown.                                                            *)
(* Violated: undivert called from diversion 0 and the shutdown write the   *)
(* held diversions 1..9 to standard output themselves.                     *)
(***************************************************************************)
\* Standard output after the flush of buffer 0 at the top of the iteration.
TopFlush == sout \o diversion[0]

C19_OnlyBufferZero == [][sout' = TopFlush]_vars

(***************************************************************************)
(* C19, amended: every write to standard output is a flush of one of the   *)
(* diversion buffers 0..9; buffer 0 is flushed at the top of each          *)
(* outer-loop iteration and at shutdown, and buffers 1..9 are flushed only *)
(* by undivert called while diversion 0 is active and at shutdown.         *)
(***************************************************************************)
UndivertFromZero == act_div = 0 /\ (UndivertEnds \/ UndivertNoArgs)

Shutdown == exit_at = "run" /\ exit_at' = "eoi"

C19_WriteStep ==
    IF UndivertFromZero \/ Shutdown
    THEN \E ks \in Orders(Emptied) : sout' = TopFlush \o Contents(diversion, ks)
    ELSE sout' = TopFlush

C19_WritesAreFlushes == [][C19_WriteStep]_vars

\* undivert(1) called from diversion 0 has written diversion 1 while
\* diversion 2 is still held.
C19_Witness ==
    /\ ev.kind = "bi_end"
    /\ Deref(ev.frame).name = Ptr(W_undivert)
    /\ act_div = 0
    /\ sout = <<"a", "\n">>
    /\ diversion[1] = <<>>
    /\ diversion[2] # <<>>

(***************************************************************************)
(* C20: text written to a held diversion k in 1..9 reaches standard output *)
(* only through an undivert that selects k or at clean end-of-input; at    *)
(* clean end-of-input buffers 0..9 are written in ascending index order,   *)
(* after all text already emitted, and are empty afterwards.               *)
(***************************************************************************)
CleanEnd == Shutdown /\ ret' = 0

C20_HeldStep ==
    LET f == Head(stack)
    IN IF CleanEnd
       THEN /\ sout' = sout \o Contents(diversion, Ascending)
            /\ \A k \in 0..9 : diversion'[k] = <<>>
       ELSE IF UndivertNoArgs /\ act_div = 0
       THEN sout' = sout \o Contents(diversion, Ascending)
       ELSE IF UndivertEnds /\ act_div = 0
       THEN /\ sout' = TopFlush \o Contents(diversion, InArgOrder(f, Named(f)))
            /\ \A k \in (1..9) \ Named(f) : diversion'[k] = diversion[k]
       ELSE sout' = TopFlush

C20_HeldUntilSelected == [][C20_HeldStep]_vars

\* A clean end of input with diversions 1 and 2 held, filled in the order
\* 2, 1: they are written after the text already emitted, 1 before 2, and
\* the -1 sink keeps its text.
C20_Witness ==
    /\ pc = "done"
    /\ ret = 0
    /\ sout = <<" ", "0", "\n", "a", "\n", "b", "\n">>
    /\ \A k \in 0..9 : diversion[k] = <<>>
    /\ diversion[10] # <<>>

(***************************************************************************)
(* C21: add, mult, sub, div, mod and incr never push a wrapped value: the  *)
(* pushed decimal is the exact left fold over the non-empty arguments (add *)
(* from 0, mult from 1, sub/div/mod from argument 1, incr n+1) whenever    *)
(* that result and every intermediate value lie in 0..SIZE_MAX, and        *)
(* otherwise the run ends in a fatal error with nothing pushed.            *)
(* Violated: the result is cast to unsigned long before it is formatted,   *)
(* and where unsigned long is narrower than size_t a result that fits      *)
(* size_t is pushed modulo the width of unsigned long.                     *)
(***************************************************************************)
IsNumeral(str) == str # <<>> /\ \A i \in DOMAIN str : str[i] \in DigitSet

RECURSIVE Value(_)
Value(str) ==
    IF str = <<>> THEN 0
    ELSE Value(Front(str)) * 10 + (IndexOf(Digits, Last(str)) - 1)

\* A numeral of a value in 0..SIZE_MAX.
IsOperand(str) == IsNumeral(str) /\ Value(str) <= SIZE_MAX

NonEmpty(str) == str # <<>>

\* No result: the call must end in a fatal error.
NoValue == 0 - 1

\* One step of the exact fold, or NoValue when the value leaves 0..SIZE_MAX
\* or the divisor is zero.
ExactStep(op, w, v) ==
    CASE op = "add" -> IF w + v > SIZE_MAX THEN NoValue ELSE w + v
      [] op = "mult" ->
            IF w # 0 /\ v > SIZE_MAX \div w THEN NoValue ELSE w * v
      [] op = "sub" -> IF w - v < 0 THEN NoValue ELSE w - v
      [] op = "div" -> IF v = 0 THEN NoValue ELSE w \div v
      [] op = "mod" -> IF v = 0 THEN NoValue ELSE w % v

RECURSIVE ExactFold(_, _, _)
ExactFold(op, w, texts) ==
    IF texts = <<>> THEN w
    ELSE IF ~IsOperand(Head(texts)) THEN NoValue
    ELSE LET x == ExactStep(op, w, Value(Head(texts)))
         IN IF x = NoValue THEN NoValue ELSE ExactFold(op, x, Tail(texts))

\* The value the claim asks for, from the arguments as collected.
Expected(op, args) ==
    LET used == SelectSeq(args, NonEmpty)
        first == IF args = <<>> THEN <<>> ELSE Head(args)
    IN CASE op = "incr" -> ExactFold("add", 1, <<first>>)
         [] op = "add" -> ExactFold("add", 0, used)
         [] op = "mult" -> ExactFold("mult", 1, used)
         [] OTHER ->
              IF ~IsOperand(first) THEN NoValue
              ELSE ExactFold(op, Value(first), SelectSeq(Tail(args), NonEmpty))

\* The text that the next reads of the buffer return.
Pending(b) == Reverse(b.a)

Canonical(str) == IsNumeral(str) /\ (Len(str) = 1 \/ Head(str) # "0")

C21_ExactArithmetic ==
    libcall.op \in ArithOps =>
        LET e == Expected(libcall.op, libcall.arg.args)
        IN IF e = NoValue
           THEN libcall.rc = 1 /\ buf = init_buf
           ELSE /\ libcall.rc = 0
                /\ Canonical(Pending(buf))
                /\ Value(Pending(buf)) = e

(***************************************************************************)
(* C22: translit(s, from, to) pushes s with each byte replaced according   *)
(* to a map in which, for each position i < min(len(from), len(to)),       *)
(* from[i] maps to to[i] unless from[i] was already mapped by an earlier   *)
(* position, every from[j] with j >= len(to) maps to delete, and every     *)
(* byte not in from passes through unchanged.                              *)
(* Violated: the byte of value UCHAR_MAX has no slot in the map (C25), so  *)
(* what becomes of it is not determined by from and to.                    *)
(***************************************************************************)
\* The positions of from that hold c.
PositionsOf(c, from) == {i \in DOMAIN from : from[i] = c}

\* What the byte c of s becomes: nothing, its target, or itself.
Translated(c, from, to) ==
    LET at == PositionsOf(c, from)
        paired == {i \in at : i <= Len(to)}
    IN IF \E j \in at : j > Len(to) THEN <<>>
       ELSE IF paired # {} THEN <<to[CHOOSE i \in paired : \A j \in paired : i <= j]>>
       ELSE <<c>>

ExpectedTranslit(str, from, to) ==
    Concat([i \in DOMAIN str |-> Translated(str[i], from, to)])

C22_Translit ==
    libcall.op = "translit" =>
        Pending(buf) =
            ExpectedTranslit(libcall.arg.s, libcall.arg.from, libcall.arg.to)

(***************************************************************************)
(* C25: the transliteration map has one slot for each of the 256 byte      *)
(* values, all slots are initialised to pass-through before use, and every *)
(* map read or write during translit (for any byte 0..255 occurring in s   *)
(* or from) is inside the map.                                             *)
(* Violated: the map has UCHAR_MAX slots, and the byte of value UCHAR_MAX  *)
(* indexes the object after it.                                            *)
(***************************************************************************)
C25_MapHoldsEveryByte ==
    libcall.op = "translit" =>
        /\ \A c \in Byte : InMap(c)
        /\ ~libcall.arg.oob

(***************************************************************************)
(* C23: the fill index of a buffer never exceeds its capacity, and every   *)
(* append writes only to positions below the capacity in force at the time *)
(* of the write.                                                           *)
(* Violated: include stores the bytes of the file downwards from i + fs,   *)
(* and a file that yields more than i + fs bytes takes the position below  *)
(* 0.                                                                      *)
(***************************************************************************)
C23_WithinCapacity ==
    /\ Len(buf.a) <= buf.s
    /\ libcall.op # "none" => \A w \in libcall.arg.writes : w[1] < w[2]

(***************************************************************************)
(* C24: the body expanded when a user-defined call completes, and whether  *)
(* the call is dispatched as built-in or user-defined, are those fixed     *)
(* when the frame of the call was pushed: the frame gets the definition    *)
(* the table holds at the push, no step changes the name or definition of  *)
(* a pending frame, and the call completes on the definition in its frame, *)
(* whatever the table holds by then.                                       *)
(***************************************************************************)
\* The k-th frame from the bottom of stack stk.
FromBottom(stk, k) == stk[Len(stk) - k + 1]

\* A frame is pushed for the macro named by the token read.
FramePushed == Taken(Read, "macro") /\ Len(stack') = Len(stack) + 1

C24_PushStep ==
    FramePushed =>
        /\ Head(stack').name = Ptr(Read.s.token)
        /\ Head(stack').def = Deref(ISMACRO(ht, Read.s.token)).def

C24_PendingStep ==
    \A k \in 1..Min(Len(stack), Len(stack')) :
        /\ FromBottom(stack', k).name = FromBottom(stack, k).name
        /\ FromBottom(stack', k).def = FromBottom(stack, k).def

C24_CompleteStep ==
    Taken(Read, "arg_end") =>
        LET f == Head(stack)
        IN /\ ev'.frame # NULL
           /\ Deref(ev'.frame).name = f.name
           /\ Deref(ev'.frame).def = f.def
           /\ IF f.def = NULL THEN ev'.kind \in {"bi_end", "bi_fail"}
              ELSE /\ ev'.kind = "user_end"
                   /\ ev'.pushed = sub_args(f)
                   /\ input' = ungetstr(Read.s.input, sub_args(f))

C24_FixedAtPush ==
    [][C24_PushStep /\ C24_PendingStep /\ C24_CompleteStep]_vars

\* A call of a user-defined macro has completed on a body that the table no
\* longer holds for its name.
C24_Witness ==
    /\ ev.kind = "user_end"
    /\ ev.pushed # <<>>
    /\ LET p == ISMACRO(ht, Deref(Deref(ev.frame).name))
       IN p = NULL \/ Deref(p).def # Deref(ev.frame).def

(***************************************************************************)
(* C26: for every definition string, strip_def(def), the text pushed when  *)
(* a user-defined macro is invoked without an argument list, equals the    *)
(* result of sub_args on def with every argument buffer empty or absent.   *)
(***************************************************************************)
C26_StripIsEmptySubstitution ==
    libcall.op = "strip_def" =>
        libcall.rc.stripped = libcall.rc.substituted

\* A definition of which one argument position was removed and a dollar was
\* kept, with absent arguments in the frame.
C26_Witness ==
    /\ libcall.op = "strip_def"
    /\ libcall.arg.f.arg_buf[9] = NULL
    /\ Len(libcall.rc.stripped) < Len(libcall.arg.def)
    /\ \E k \in 1..Len(libcall.rc.stripped) : libcall.rc.stripped[k] = "$"

(***************************************************************************)
(* C27: in every state the cached sink output is the sink recomputed from  *)
(* the state, diversion act_div when the call stack is empty and otherwise *)
(* the argument buffer act_arg of the top frame, so that every token that  *)
(* is appended goes to the end of that buffer; this holds after a frame    *)
(* push, a comma, a frame pop and a divert, also a divert executed while   *)
(* another call is pending.                                                *)
(***************************************************************************)
Recomputed(stk, ad) ==
    IF stk = <<>> THEN [lvl |-> 0, n |-> ad]
    ELSE [lvl |-> Len(stk), n |-> Head(stk).act_arg]

\* The contents of the buffer that is the active sink for stk, ad.
ActiveText(stk, div, ad) ==
    IF stk = <<>> THEN div[ad] ELSE ARG(Head(stk), Head(stk).act_arg)

\* The branches of the loop that append the token and do nothing else to
\* the sink.
AppendKinds == {"quoted", "nested_cb", "nested_ob", "pass"}

C27_AppendStep ==
    \A kind \in AppendKinds :
        Taken(Read, kind) =>
            ActiveText(stack', diversion', act_div')
                = ActiveText(Read.s.stack, Read.s.diversion, Read.s.act_div)
                    \o Read.s.token

C27_SinkIsRecomputed ==
    /\ [](output = Recomputed(stack, act_div))
    /\ [][C27_AppendStep]_vars

\* A token was appended to an argument of a pending call in which a divert
\* was executed: the active diversion is no longer the one the call was
\* pushed in.
C27_Witness ==
    /\ ev.kind = "pass"
    /\ stack # <<>>
    /\ Head(hsink).lvl = 0
    /\ Head(hsink).n # act_div
    /\ ARG(Head(stack), Head(stack).act_arg) # <<>>

(***************************************************************************)
(* C28: every read of the argument-slot array of a frame uses an index in  *)
(* 0..9, also while the arguments are NUL-terminated and while they are    *)
(* freed for a call with all nine slots allocated.                         *)
(* Violated: both loops read slot 10 of such a frame.                      *)
(***************************************************************************)
C28_SlotReadsInside ==
    ev.frame # NULL =>
        LET f == Deref(ev.frame)
            read == IF f.def = NULL THEN terminate_args(f) \o free_mcall(f)
                    ELSE free_mcall(f)
        IN \A k \in 1..Len(read) : read[k] \in 0..9

(***************************************************************************)
(* C29: an unquoted built-in name that is not followed by an opening       *)
(* bracket and is not dnl, divnum, undivert, divert, htdist or dirsep is   *)
(* appended verbatim to the active sink; the look-ahead token is pushed    *)
(* back, so that the text still to be read is the text after the name; the *)
(* table, the frames, the quote state, act_div, the sink chosen and every  *)
(* other buffer are as they were when the name was read.                   *)
(***************************************************************************)
ActsWithoutArgs == {W_dnl, W_divnum, W_undivert, W_divert, W_htdist, W_dirsep}

\* The text still to be read: the pushback buffer, last byte first, and
\* then standard input.
Stream(inp, sin) == Reverse(inp) \o sin

PlainName ==
    /\ Taken(Read, "macro")
    /\ LookAhead(Read.s) # <<"(">>
    /\ Deref(ISMACRO(Read.s.ht, Read.s.token)).def = NULL
    /\ Read.s.token \notin ActsWithoutArgs

C29_NameStep ==
    PlainName =>
        LET s == Read.s
        IN /\ pc' = "loop" /\ ret' = ret
           /\ ActiveText(stack', diversion', act_div')
                = ActiveText(s.stack, s.diversion, s.act_div) \o s.token
           /\ Stream(input', stdin') = Stream(s.input, s.stdin)
           /\ ht' = ht
           /\ quote_on' = quote_on /\ quote_depth' = quote_depth
           /\ left_quote' = left_quote /\ right_quote' = right_quote
           /\ act_div' = act_div /\ output' = output
           /\ sout' = s.sout
           /\ IF stack = <<>>
              THEN /\ stack' = stack
                   /\ \A n \in DOMAIN diversion :
                        n # act_div => diversion'[n] = s.diversion[n]
              ELSE /\ diversion' = s.diversion
                   /\ Tail(stack') = Tail(stack)
                   /\ \E b \in {Head(stack').arg_buf[Head(stack).act_arg]} :
                        Head(stack') =
                          [Head(stack) EXCEPT !.arg_buf[Head(stack).act_arg] = b]

C29_PlainNamePassesThrough == [][C29_NameStep]_vars

\* The name len was appended to the argument of a pending call and the
\* comma after it is the next byte to be read.
C29_Witness ==
    /\ ev.kind = "bi_no_args"
    /\ token = W_len
    /\ stack # <<>>
    /\ ARG(Head(stack), Head(stack).act_arg) = W_len
    /\ input # <<>> /\ Last(input) = ","

=============================================================================
